---------------------------- MODULE Spec2Model ----------------------------
(* Style resolution (style.rs) and block layout (layout.rs) of the violet  *)
(* toy browser engine, as a state machine over bounded inputs.             *)
(*                                                                         *)
(* Representation                                                          *)
(*  - Option<T> is a sequence of length 0 (None) or 1 (Some).              *)
(*  - HashMap<String, V> is a function whose DOMAIN is the set of keys.    *)
(*  - An f32 is stored as twice its value (fixed point, one fractional     *)
(*    bit), so that the halving in calculate_block_width is exact; every   *)
(*    input length is a whole number of pixels.                            *)
(*  - The class attribute is a sequence of one-character strings so that   *)
(*    ElementData::classes can split it.                                   *)
EXTENDS Integers, Sequences, FiniteSets, TLC

VARIABLES
    mode,        \* which entry point this behaviour exercises
    pc,          \* "input" before the call, "done" after it
    doc,         \* dom::Node, root of the document tree
    sheet,       \* css::Stylesheet
    styled,      \* style::StyledNode returned by style_tree
    snode,       \* style::StyledNode handed to layout_tree
    viewport,    \* layout::Dimensions behind the caller's Rc<RefCell<..>>
    lay,         \* outcome of layout_tree
    receiver,    \* layout::LayoutBox a method is called on
    source,      \* a rule as the CSS text gives it to the parser
    out          \* what the method returns, or the box as the method leaves it

vars == <<mode, pc, doc, sheet, styled, snode, viewport, lay, receiver, source, out>>

-----------------------------------------------------------------------------
(* Generic helpers *)

None == <<>>
Some(x) == <<x>>

EmptyMap == [k \in {} |-> k]

\* HashMap::insert
Insert(m, name, v) == [k \in DOMAIN m \cup {name} |-> IF k = name THEN v ELSE m[k]]

\* HashMap::get
Get(m, name) == IF name \in DOMAIN m THEN Some(m[name]) ELSE None

\* The f32 literal n.0
F(n) == 2 * n

-----------------------------------------------------------------------------
(* css.rs : values, selectors, rules *)

Keyword(s) == [kind |-> "Keyword", s |-> s, f |-> 0]
Length(f, unit) == [kind |-> "Length", s |-> unit, f |-> f]
Percentage(f) == [kind |-> "Percentage", s |-> "", f |-> f]
ColorValue(rgba) == [kind |-> "ColorValue", s |-> "", f |-> rgba]

to_px(v) == IF v.kind = "Length" /\ v.s = "Px" THEN v.f ELSE 0

SimpleSelector(tag_name, id, class) == [tag_name |-> tag_name, id |-> id, class |-> class]
Declaration(name, value) == [name |-> name, value |-> value]
Rule(selectors, declarations) == [selectors |-> selectors, declarations |-> declarations]
Stylesheet(rules) == [rules |-> rules]

specificity(selector) == <<Len(selector.id), Len(selector.class), Len(selector.tag_name)>>

\* Variant: specificities compared by the total of their counts
SpecificityLess_by_total(a, b) == a[1] + a[2] + a[3] < b[1] + b[2] + b[3]

\* Ord for (usize, usize, usize): lexicographic
SpecificityLess(a, b) ==
    \/ a[1] < b[1]
    \/ a[1] = b[1] /\ a[2] < b[2]
    \/ a[1] = b[1] /\ a[2] = b[2] /\ a[3] < b[3]

-----------------------------------------------------------------------------
(* dom.rs *)

Attrs(id, class) == [id |-> id, class |-> class]

Element(tag_name, attributes) ==
    [kind |-> "Element", text |-> "", tag_name |-> tag_name, attributes |-> attributes]
Text(data) ==
    [kind |-> "Text", text |-> data, tag_name |-> "", attributes |-> Attrs(None, None)]
Node(node_type, children) == [node_type |-> node_type, children |-> children]

elem_id(elem) == elem.attributes.id

\* str::split(' '): the pieces between single spaces, empty pieces kept
RECURSIVE SplitSpace(_, _)
SplitSpace(s, cur) ==
    IF s = <<>> THEN <<cur>>
    ELSE IF Head(s) = " " THEN <<cur>> \o SplitSpace(Tail(s), <<>>)
    ELSE SplitSpace(Tail(s), Append(cur, Head(s)))

classes(elem) ==
    IF elem.attributes.class # None
    THEN LET pieces == SplitSpace(elem.attributes.class[1], <<>>)
         IN {pieces[i] : i \in 1..Len(pieces)}
    ELSE {}

-----------------------------------------------------------------------------
(* style.rs *)

INHERIT_PROPS == <<"color", "font-size", "font-weight", "line-height">>

create_default_props ==
    Insert(Insert(Insert(Insert(EmptyMap,
        "color", Keyword("#000000")),
        "font-size", Length(F(16), "Px")),
        "font-weight", Keyword("normal")),
        "line-height", Keyword("normal"))

matches_simple_selector(elem, selector) ==
    IF \E i \in 1..Len(selector.tag_name) : elem.tag_name # selector.tag_name[i] THEN FALSE
    ELSE IF \E i \in 1..Len(selector.id) : elem_id(elem) # Some(selector.id[i]) THEN FALSE
    ELSE IF \E i \in 1..Len(selector.class) : selector.class[i] \notin classes(elem) THEN FALSE
    ELSE TRUE

matches(elem, selector) == matches_simple_selector(elem, selector)

\* Variant: the matching selector of the greatest specificity decides
match_rule_greatest(elem, rule) ==
    LET hits == {i \in 1..Len(rule.selectors) : matches(elem, rule.selectors[i])}
    IN IF hits = {} THEN None
       ELSE LET best == CHOOSE i \in hits : \A j \in hits :
                            ~SpecificityLess(specificity(rule.selectors[i]),
                                             specificity(rule.selectors[j]))
            IN Some(<<specificity(rule.selectors[best]), rule>>)

\* Iterator::find followed by Option::map: the first matching selector decides
match_rule(elem, rule) ==
    LET hits == {i \in 1..Len(rule.selectors) : matches(elem, rule.selectors[i])}
    IN IF hits = {} THEN None
       ELSE LET first == CHOOSE i \in hits : \A j \in hits : i <= j
            IN Some(<<specificity(rule.selectors[first]), rule>>)

\* filter_map(..).collect(): the matched rules in stylesheet order
RECURSIVE matching_rules_from(_, _, _)
matching_rules_from(elem, rules, i) ==
    IF i > Len(rules) THEN <<>>
    ELSE match_rule(elem, rules[i]) \o matching_rules_from(elem, rules, i + 1)

matching_rules(elem, stylesheet) == matching_rules_from(elem, stylesheet.rules, 1)

\* Variant: a rule is also placed before the rules of equal specificity
RuleBefore_or_equal(x, y) == ~SpecificityLess(y[1], x[1])

\* The comparator of rules.sort_by: a.cmp(&b) on the specificities; TRUE when
\* the pair x must come before the pair y.
RuleBefore(x, y) == SpecificityLess(x[1], y[1])

\* slice::sort_by is a stable sort: x is placed after every element that is
\* not greater than it.
RECURSIVE InsertSorted(_, _)
InsertSorted(sorted, x) ==
    IF sorted = <<>> THEN <<x>>
    ELSE IF RuleBefore(x, sorted[Len(sorted)])
         THEN Append(InsertSorted(SubSeq(sorted, 1, Len(sorted) - 1), x), sorted[Len(sorted)])
         ELSE Append(sorted, x)

RECURSIVE sort_by(_)
sort_by(rules) ==
    IF rules = <<>> THEN <<>>
    ELSE InsertSorted(sort_by(SubSeq(rules, 1, Len(rules) - 1)), rules[Len(rules)])

\* Variant: inherit is honoured for the inheritable properties only
apply_declaration_listed_only(values, declaration, parent_prop_map) ==
    IF declaration.value = Keyword("inherit")
    THEN IF \E i \in 1..Len(INHERIT_PROPS) : INHERIT_PROPS[i] = declaration.name
         THEN LET parent_value_opt == Get(parent_prop_map, declaration.name)
              IN IF parent_value_opt # None
                 THEN Insert(values, declaration.name, parent_value_opt[1])
                 ELSE values
         ELSE values
    ELSE Insert(values, declaration.name, declaration.value)

\* Variant: a declaration does not replace an entry the map already has
apply_declaration_keeps_entry(values, declaration, parent_prop_map) ==
    IF declaration.name \in DOMAIN values THEN values
    ELSE IF declaration.value = Keyword("inherit")
    THEN LET parent_value_opt == Get(parent_prop_map, declaration.name)
         IN IF parent_value_opt # None
            THEN Insert(values, declaration.name, parent_value_opt[1])
            ELSE values
    ELSE Insert(values, declaration.name, declaration.value)

\* Body of the inner loop of specified_values (style.rs 64-72)
apply_declaration(values, declaration, parent_prop_map) ==
    IF declaration.value = Keyword("inherit")
    THEN LET parent_value_opt == Get(parent_prop_map, declaration.name)
         IN IF parent_value_opt # None
            THEN Insert(values, declaration.name, parent_value_opt[1])
            ELSE values
    ELSE Insert(values, declaration.name, declaration.value)

RECURSIVE apply_declarations(_, _, _, _)
apply_declarations(values, declarations, i, parent_prop_map) ==
    IF i > Len(declarations) THEN values
    ELSE apply_declarations(apply_declaration(values, declarations[i], parent_prop_map),
                            declarations, i + 1, parent_prop_map)

RECURSIVE apply_rules(_, _, _, _)
apply_rules(values, rules, i, parent_prop_map) ==
    IF i > Len(rules) THEN values
    ELSE apply_rules(apply_declarations(values, rules[i][2].declarations, 1, parent_prop_map),
                     rules, i + 1, parent_prop_map)

\* The first loop of specified_values (style.rs 52-57)
RECURSIVE inherit_props(_, _, _)
inherit_props(values, i, parent_prop_map) ==
    IF i > Len(INHERIT_PROPS) THEN values
    ELSE LET x == Get(parent_prop_map, INHERIT_PROPS[i])
         IN inherit_props(IF x # None THEN Insert(values, INHERIT_PROPS[i], x[1]) ELSE values,
                          i + 1, parent_prop_map)

specified_values(elem, stylesheet, parent_prop_map) ==
    LET values == inherit_props(EmptyMap, 1, parent_prop_map)
        rules == sort_by(matching_rules(elem, stylesheet))
    IN apply_rules(values, rules, 1, parent_prop_map)

StyledNode(node, values, children) ==
    [node |-> node, specified_values |-> values, children |-> children]

\* Variant: only the element children are styled
RECURSIVE style_tree_rec_elements_only(_, _, _)
style_tree_rec_elements_only(root, stylesheet, parent_prop_map) ==
    LET values == IF root.node_type.kind = "Element"
                  THEN specified_values(root.node_type, stylesheet, parent_prop_map)
                  ELSE EmptyMap
        elements == SelectSeq(root.children, LAMBDA ch : ch.node_type.kind = "Element")
    IN StyledNode(root, values,
                  [i \in 1..Len(elements) |->
                      style_tree_rec_elements_only(elements[i], stylesheet, values)])

\* Variant: the children are resolved against the map this node was given
RECURSIVE style_tree_rec_same_parent(_, _, _)
style_tree_rec_same_parent(root, stylesheet, parent_prop_map) ==
    LET values == IF root.node_type.kind = "Element"
                  THEN specified_values(root.node_type, stylesheet, parent_prop_map)
                  ELSE EmptyMap
    IN StyledNode(root, values,
                  [i \in 1..Len(root.children) |->
                      style_tree_rec_same_parent(root.children[i], stylesheet, parent_prop_map)])

\* Variant: a text node takes the property map of its parent
RECURSIVE style_tree_rec_text_inherits(_, _, _)
style_tree_rec_text_inherits(root, stylesheet, parent_prop_map) ==
    LET values == IF root.node_type.kind = "Element"
                  THEN specified_values(root.node_type, stylesheet, parent_prop_map)
                  ELSE parent_prop_map
    IN StyledNode(root, values,
                  [i \in 1..Len(root.children) |->
                      style_tree_rec_text_inherits(root.children[i], stylesheet, values)])

RECURSIVE style_tree_rec(_, _, _)
style_tree_rec(root, stylesheet, parent_prop_map) ==
    LET values == IF root.node_type.kind = "Element"
                  THEN specified_values(root.node_type, stylesheet, parent_prop_map)
                  ELSE EmptyMap
    IN StyledNode(root, values,
                  [i \in 1..Len(root.children) |->
                      style_tree_rec(root.children[i], stylesheet, values)])

style_tree(root, stylesheet) == style_tree_rec(root, stylesheet, create_default_props)

-----------------------------------------------------------------------------
(* StyledNode accessors used by layout.rs (style module, Display) *)

\* StyledNode::value: the specified value of a property, if any
value(style, name) == Get(style.specified_values, name)

\* StyledNode::lookup: the property, else the shorthand, else the default
lookup(style, name, fallback_name, default) ==
    IF value(style, name) # None THEN value(style, name)[1]
    ELSE IF value(style, fallback_name) # None THEN value(style, fallback_name)[1]
    ELSE default

\* StyledNode::display: block and none are recognised, anything else is inline
display(style) ==
    LET v == value(style, "display")
    IN IF v = None THEN "Inline"
       ELSE IF v[1] = Keyword("block") THEN "Block"
       ELSE IF v[1] = Keyword("none") THEN "None"
       ELSE "Inline"

-----------------------------------------------------------------------------
(* layout.rs : data *)

Rect(x, y, width, height) == [x |-> x, y |-> y, width |-> width, height |-> height]
EdgeSize(left, right, top, bottom) == [left |-> left, right |-> right, top |-> top, bottom |-> bottom]
Dimensions(content, padding, border, margin) ==
    [content |-> content, padding |-> padding, border |-> border, margin |-> margin]

\* #[derive(Default)]
DefaultDimensions ==
    Dimensions(Rect(0, 0, 0, 0), EdgeSize(0, 0, 0, 0), EdgeSize(0, 0, 0, 0), EdgeSize(0, 0, 0, 0))

BlockNode(node) == [kind |-> "BlockNode", node |-> Some(node)]
InlineNode(node) == [kind |-> "InlineNode", node |-> Some(node)]
AnonymousBlock == [kind |-> "AnonymousBlock", node |-> None]

\* LayoutBox::new
LayoutBox(box_type) ==
    [dimensions |-> DefaultDimensions, box_type |-> box_type, children |-> <<>>]

\* panic!(message): the value that stands for an aborted call
Panic(message) == [panic |-> message]
IsPanic(r) == DOMAIN r = {"panic"}

\* Variant: an Anonymous box answers with a style node without properties
get_style_node_or_default(self) ==
    IF self.box_type.kind \in {"BlockNode", "InlineNode"} THEN self.box_type.node[1]
    ELSE StyledNode(Node(Text(""), <<>>), EmptyMap, <<>>)

get_style_node(self) ==
    IF self.box_type.kind \in {"BlockNode", "InlineNode"} THEN self.box_type.node[1]
    ELSE Panic("Anonymous block box has no style node")

expanded_by(rect, edge) ==
    Rect(rect.x - edge.left, rect.y - edge.top,
         rect.width + edge.left + edge.right, rect.height + edge.top + edge.bottom)

padding_box(d) == expanded_by(d.content, d.padding)
border_box(d) == expanded_by(padding_box(d), d.border)
margin_box(d) == expanded_by(border_box(d), d.margin)

-----------------------------------------------------------------------------
(* layout.rs : build phase *)

\* Variant: a Block box gets a new Anonymous child for every inline child
get_inline_container_always_new(self) ==
    IF self.box_type.kind \in {"InlineNode", "AnonymousBlock"} THEN self
    ELSE [self EXCEPT !.children = Append(@, LayoutBox(AnonymousBlock))]

\* Variant: an Inline box wraps its inline children like a Block box does
get_inline_container_wraps_inline(self) ==
    IF self.box_type.kind = "AnonymousBlock" THEN self
    ELSE IF self.children # <<>> /\ self.children[Len(self.children)].box_type.kind = "AnonymousBlock"
         THEN self
         ELSE [self EXCEPT !.children = Append(@, LayoutBox(AnonymousBlock))]

\* get_inline_container as the mutation it performs on self: a Block box gets
\* a new trailing Anonymous child unless its last child is one already.
get_inline_container(self) ==
    IF self.box_type.kind \in {"InlineNode", "AnonymousBlock"} THEN self
    ELSE IF self.children # <<>> /\ self.children[Len(self.children)].box_type.kind = "AnonymousBlock"
         THEN self
         ELSE [self EXCEPT !.children = Append(@, LayoutBox(AnonymousBlock))]

\* Variant: a Block box takes the inline child without a wrapper
push_inline_unwrapped(root, child_box) ==
    [root EXCEPT !.children = Append(@, child_box)]

\* root.get_inline_container().children.push(child_box)
push_inline(root, child_box) ==
    LET r == get_inline_container(root)
    IN IF r.box_type.kind \in {"InlineNode", "AnonymousBlock"}
       THEN [r EXCEPT !.children = Append(@, child_box)]
       ELSE [r EXCEPT !.children[Len(r.children)].children = Append(@, child_box)]

RECURSIVE build_layout_tree(_)
RECURSIVE build_children(_, _, _)
RECURSIVE build_children_none_as_box(_, _, _)
RECURSIVE build_layout_tree_none_as_inline(_)

\* Variant: a display: none child leaves an empty Anonymous box behind
build_children_none_as_box(root, style_children, i) ==
    IF i > Len(style_children) THEN root
    ELSE LET child == style_children[i]
         IN IF display(child) = "None"
            THEN build_children_none_as_box(
                     [root EXCEPT !.children = Append(@, LayoutBox(AnonymousBlock))],
                     style_children, i + 1)
            ELSE LET child_box == build_layout_tree(child)
                 IN IF IsPanic(child_box) THEN child_box
                    ELSE IF display(child) = "Block"
                         THEN build_children_none_as_box(
                                  [root EXCEPT !.children = Append(@, child_box)],
                                  style_children, i + 1)
                         ELSE build_children_none_as_box(push_inline(root, child_box),
                                                         style_children, i + 1)

\* The loop over style_node.children (layout.rs 83-89), from child i on
build_children(root, style_children, i) ==
    IF i > Len(style_children) THEN root
    ELSE LET child == style_children[i]
         IN IF display(child) = "None" THEN build_children(root, style_children, i + 1)
            ELSE LET child_box == build_layout_tree(child)
                 IN IF IsPanic(child_box) THEN child_box
                    ELSE IF display(child) = "Block"
                         THEN build_children([root EXCEPT !.children = Append(@, child_box)],
                                             style_children, i + 1)
                         ELSE build_children(push_inline(root, child_box), style_children, i + 1)

\* Variant: a root that is not displayed gets an Inline box
build_layout_tree_none_as_inline(style_node) ==
    LET root == LayoutBox(IF display(style_node) = "Block"
                          THEN BlockNode(style_node) ELSE InlineNode(style_node))
    IN build_children(root, style_node.children, 1)

build_layout_tree(style_node) ==
    IF display(style_node) = "None" THEN Panic("Root node has display: none.")
    ELSE LET root == LayoutBox(IF display(style_node) = "Block"
                               THEN BlockNode(style_node) ELSE InlineNode(style_node))
         IN build_children(root, style_node.children, 1)

-----------------------------------------------------------------------------
(* layout.rs : solve phase *)

auto == Keyword("auto")
zero == Length(0, "Px")

\* x / 2.0; exact, because every width and every fixed length is a whole
\* number of pixels and so even in the fixed-point representation
Half(x) == x \div 2

\* The arms of the match on (width == auto, margin_left == auto,
\* margin_right == auto) (layout.rs 151-180); each yields the resolved width
\* and margins.

\* Variant: margin-right is overwritten by the underflow
solve_none_auto_overwrite(width, margin_left, margin_right, underflow) ==
    [width |-> width, margin_left |-> margin_left, margin_right |-> Length(underflow, "Px")]

\* (false, false, false)
solve_none_auto(width, margin_left, margin_right, underflow) ==
    [width |-> width, margin_left |-> margin_left,
     margin_right |-> Length(to_px(margin_right) + underflow, "Px")]

\* Variant: a margin-right that is auto stays 0
solve_margin_right_auto_zero(width, margin_left, margin_right, underflow) ==
    [width |-> width, margin_left |-> margin_left, margin_right |-> Length(0, "Px")]

\* (false, false, true)
solve_margin_right_auto(width, margin_left, margin_right, underflow) ==
    [width |-> width, margin_left |-> margin_left, margin_right |-> Length(underflow, "Px")]

\* Variant: the underflow goes to the margin that is not auto
solve_margin_left_auto_swapped(width, margin_left, margin_right, underflow) ==
    [width |-> width, margin_left |-> margin_left, margin_right |-> Length(underflow, "Px")]

\* (false, true, false)
solve_margin_left_auto(width, margin_left, margin_right, underflow) ==
    [width |-> width, margin_left |-> Length(underflow, "Px"), margin_right |-> margin_right]

\* Variant: the test of the underflow is inverted
solve_width_auto_inverted(width, margin_left, margin_right, underflow) ==
    LET ml == IF margin_left = auto THEN Length(0, "Px") ELSE margin_left
        mr == IF margin_right = auto THEN Length(0, "Px") ELSE margin_right
    IN IF underflow < 0
       THEN [width |-> Length(underflow, "Px"), margin_left |-> ml, margin_right |-> mr]
       ELSE [width |-> Length(0, "Px"), margin_left |-> ml,
             margin_right |-> Length(to_px(mr) + underflow, "Px")]

\* Variant: the width takes the underflow also when that is negative
solve_width_auto_negative(width, margin_left, margin_right, underflow) ==
    LET ml == IF margin_left = auto THEN Length(0, "Px") ELSE margin_left
        mr == IF margin_right = auto THEN Length(0, "Px") ELSE margin_right
    IN [width |-> Length(underflow, "Px"), margin_left |-> ml, margin_right |-> mr]

\* (true, _, _)
solve_width_auto(width, margin_left, margin_right, underflow) ==
    LET ml == IF margin_left = auto THEN Length(0, "Px") ELSE margin_left
        mr == IF margin_right = auto THEN Length(0, "Px") ELSE margin_right
    IN IF underflow >= 0
       THEN [width |-> Length(underflow, "Px"), margin_left |-> ml, margin_right |-> mr]
       ELSE [width |-> Length(0, "Px"), margin_left |-> ml,
             margin_right |-> Length(to_px(mr) + underflow, "Px")]

\* Variant: each margin takes the whole underflow
solve_both_margins_auto_whole(width, margin_left, margin_right, underflow) ==
    [width |-> width, margin_left |-> Length(underflow, "Px"),
     margin_right |-> Length(underflow, "Px")]

\* (false, true, true)
solve_both_margins_auto(width, margin_left, margin_right, underflow) ==
    [width |-> width, margin_left |-> Length(Half(underflow), "Px"),
     margin_right |-> Length(Half(underflow), "Px")]

solve_width(width, margin_left, margin_right, underflow) ==
    IF width # auto /\ margin_left # auto /\ margin_right # auto
    THEN solve_none_auto(width, margin_left, margin_right, underflow)
    ELSE IF width # auto /\ margin_left # auto /\ margin_right = auto
    THEN solve_margin_right_auto(width, margin_left, margin_right, underflow)
    ELSE IF width # auto /\ margin_left = auto /\ margin_right # auto
    THEN solve_margin_left_auto(width, margin_left, margin_right, underflow)
    ELSE IF width = auto
    THEN solve_width_auto(width, margin_left, margin_right, underflow)
    ELSE solve_both_margins_auto(width, margin_left, margin_right, underflow)

\* Variant: auto margins are not forced to 0 when the box overflows
calculate_block_width_no_overflow_pass(self, containing_block) ==
    LET style == get_style_node(self)
    IN IF IsPanic(style) THEN style
       ELSE
       LET width == IF value(style, "width") # None THEN value(style, "width")[1] ELSE auto
           margin_left0 == lookup(style, "margin-left", "margin", zero)
           margin_right0 == lookup(style, "margin-right", "margin", zero)
           border_left == lookup(style, "border-left-width", "border-width", zero)
           border_right == lookup(style, "border-right-width", "border-width", zero)
           padding_left == lookup(style, "padding-left", "padding", zero)
           padding_right == lookup(style, "padding-right", "padding", zero)
           total == to_px(margin_left0) + to_px(margin_right0) + to_px(border_left)
                    + to_px(border_right) + to_px(padding_left) + to_px(padding_right)
                    + to_px(width)
           overflowing == FALSE
           margin_left == IF overflowing /\ margin_left0 = auto
                          THEN Length(0, "Px") ELSE margin_left0
           margin_right == IF overflowing /\ margin_right0 = auto
                           THEN Length(0, "Px") ELSE margin_right0
           underflow == containing_block.content.width - total
           r == solve_width(width, margin_left, margin_right, underflow)
       IN [self EXCEPT !.dimensions.content.width = to_px(r.width),
                       !.dimensions.padding.left = to_px(padding_left),
                       !.dimensions.padding.right = to_px(padding_right),
                       !.dimensions.border.left = to_px(border_left),
                       !.dimensions.border.right = to_px(border_right),
                       !.dimensions.margin.left = to_px(r.margin_left),
                       !.dimensions.margin.right = to_px(r.margin_right)]

calculate_block_width(self, containing_block) ==
    LET style == get_style_node(self)
    IN IF IsPanic(style) THEN style
       ELSE
       LET width == IF value(style, "width") # None THEN value(style, "width")[1] ELSE auto
           margin_left0 == lookup(style, "margin-left", "margin", zero)
           margin_right0 == lookup(style, "margin-right", "margin", zero)
           border_left == lookup(style, "border-left-width", "border-width", zero)
           border_right == lookup(style, "border-right-width", "border-width", zero)
           padding_left == lookup(style, "padding-left", "padding", zero)
           padding_right == lookup(style, "padding-right", "padding", zero)
           total == to_px(margin_left0) + to_px(margin_right0) + to_px(border_left)
                    + to_px(border_right) + to_px(padding_left) + to_px(padding_right)
                    + to_px(width)
           overflowing == width # auto /\ total > containing_block.content.width
           margin_left == IF overflowing /\ margin_left0 = auto
                          THEN Length(0, "Px") ELSE margin_left0
           margin_right == IF overflowing /\ margin_right0 = auto
                           THEN Length(0, "Px") ELSE margin_right0
           underflow == containing_block.content.width - total
           r == solve_width(width, margin_left, margin_right, underflow)
       IN [self EXCEPT !.dimensions.content.width = to_px(r.width),
                       !.dimensions.padding.left = to_px(padding_left),
                       !.dimensions.padding.right = to_px(padding_right),
                       !.dimensions.border.left = to_px(border_left),
                       !.dimensions.border.right = to_px(border_right),
                       !.dimensions.margin.left = to_px(r.margin_left),
                       !.dimensions.margin.right = to_px(r.margin_right)]

\* Variant: the border and the padding do not move the content box
calculate_block_position_margin_only(self, containing_block) ==
    LET style == get_style_node(self)
    IN IF IsPanic(style) THEN style
       ELSE
       LET d == self.dimensions
           margin_top == to_px(lookup(style, "margin-top", "margin", zero))
           margin_bottom == to_px(lookup(style, "margin-bottom", "margin", zero))
           border_top == to_px(lookup(style, "border-top-width", "border-width", zero))
           border_bottom == to_px(lookup(style, "border-bottom-width", "border-width", zero))
           padding_top == to_px(lookup(style, "padding-top", "padding", zero))
           padding_bottom == to_px(lookup(style, "padding-bottom", "padding", zero))
       IN [self EXCEPT !.dimensions.margin.top = margin_top,
                       !.dimensions.margin.bottom = margin_bottom,
                       !.dimensions.border.top = border_top,
                       !.dimensions.border.bottom = border_bottom,
                       !.dimensions.padding.top = padding_top,
                       !.dimensions.padding.bottom = padding_bottom,
                       !.dimensions.content.x = containing_block.content.x + d.margin.left,
                       !.dimensions.content.y = containing_block.content.height
                                                + containing_block.content.y + margin_top]

calculate_block_position(self, containing_block) ==
    LET style == get_style_node(self)
    IN IF IsPanic(style) THEN style
       ELSE
       LET d == self.dimensions
           margin_top == to_px(lookup(style, "margin-top", "margin", zero))
           margin_bottom == to_px(lookup(style, "margin-bottom", "margin", zero))
           border_top == to_px(lookup(style, "border-top-width", "border-width", zero))
           border_bottom == to_px(lookup(style, "border-bottom-width", "border-width", zero))
           padding_top == to_px(lookup(style, "padding-top", "padding", zero))
           padding_bottom == to_px(lookup(style, "padding-bottom", "padding", zero))
       IN [self EXCEPT !.dimensions.margin.top = margin_top,
                       !.dimensions.margin.bottom = margin_bottom,
                       !.dimensions.border.top = border_top,
                       !.dimensions.border.bottom = border_bottom,
                       !.dimensions.padding.top = padding_top,
                       !.dimensions.padding.bottom = padding_bottom,
                       !.dimensions.content.x = containing_block.content.x + d.margin.left
                                                + d.border.left + d.padding.left,
                       !.dimensions.content.y = containing_block.content.height
                                                + containing_block.content.y
                                                + margin_top + border_top + padding_top]

\* Variant: a percentage height is taken as a pixel height as well
calculate_block_height_any_number(self) ==
    LET style == get_style_node(self)
    IN IF IsPanic(style) THEN style
       ELSE LET h == value(style, "height")
            IN IF h # None /\ h[1].kind \in {"Length", "Percentage"}
               THEN [self EXCEPT !.dimensions.content.height = h[1].f]
               ELSE self

calculate_block_height(self) ==
    LET style == get_style_node(self)
    IN IF IsPanic(style) THEN style
       ELSE LET h == value(style, "height")
            IN IF h # None /\ h[1].kind = "Length" /\ h[1].s = "Px"
               THEN [self EXCEPT !.dimensions.content.height = h[1].f]
               ELSE self

RECURSIVE layout(_, _)
RECURSIVE layout_block_children(_, _)
RECURSIVE layout_block_children_no_sum(_, _)
RECURSIVE layout_block_children_border_box(_, _)

\* Variant: the content height does not grow with the children
layout_block_children_no_sum(self, i) ==
    IF i > Len(self.children) THEN self
    ELSE LET child == layout(self.children[i], self.dimensions)
         IN IF IsPanic(child) THEN child
            ELSE layout_block_children_no_sum([self EXCEPT !.children[i] = child], i + 1)

\* Variant: the content height grows by the child's border-box height
layout_block_children_border_box(self, i) ==
    IF i > Len(self.children) THEN self
    ELSE LET child == layout(self.children[i], self.dimensions)
         IN IF IsPanic(child) THEN child
            ELSE layout_block_children_border_box(
                    [self EXCEPT !.children[i] = child,
                                 !.dimensions.content.height =
                                     @ + border_box(child.dimensions).height],
                    i + 1)

\* The loop of layout_block_children from child i on: the child is laid out
\* against self's dimensions as they are now, then self's content height
\* grows by the child's margin-box height.
layout_block_children(self, i) ==
    IF i > Len(self.children) THEN self
    ELSE LET child == layout(self.children[i], self.dimensions)
         IN IF IsPanic(child) THEN child
            ELSE layout_block_children(
                    [self EXCEPT !.children[i] = child,
                                 !.dimensions.content.height =
                                     @ + margin_box(child.dimensions).height],
                    i + 1)

layout_block(self, containing_block) ==
    LET s1 == calculate_block_width(self, containing_block)
    IN IF IsPanic(s1) THEN s1
       ELSE LET s2 == calculate_block_position(s1, containing_block)
            IN IF IsPanic(s2) THEN s2
               ELSE LET s3 == layout_block_children(s2, 1)
                    IN IF IsPanic(s3) THEN s3
                       ELSE calculate_block_height(s3)

\* Variant: an Inline or Anonymous box lays its children out in the block
\* that contains it
layout_descending(self, containing_block) ==
    IF self.box_type.kind = "BlockNode" THEN layout_block(self, containing_block)
    ELSE [self EXCEPT !.children =
              [i \in 1..Len(self.children) |-> layout(self.children[i], containing_block)]]

\* Variant: Inline and Anonymous boxes are solved as blocks too
layout_every_box(self, containing_block) == layout_block(self, containing_block)

layout(self, containing_block) ==
    IF self.box_type.kind = "BlockNode" THEN layout_block(self, containing_block)
    ELSE self

\* Variant: the caller's content height is left as it was passed
layout_tree_keeps_height(node, containing_block) ==
    LET root_box == build_layout_tree(node)
    IN IF IsPanic(root_box)
       THEN [result |-> root_box, containing_block |-> containing_block]
       ELSE [result |-> layout(root_box, containing_block), containing_block |-> containing_block]

\* layout_tree: the returned root box, or the panic that aborted the call,
\* together with the caller's containing block as the call leaves it.
layout_tree(node, containing_block) ==
    LET cb == [containing_block EXCEPT !.content.height = 0]
        root_box == build_layout_tree(node)
    IN IF IsPanic(root_box)
       THEN [result |-> root_box, containing_block |-> cb]
       ELSE [result |-> layout(root_box, cb), containing_block |-> cb]

-----------------------------------------------------------------------------
(* Bounded inputs of style_tree *)

MaxNodes == 3        \* nodes of a document tree
MaxRules == 3        \* rules of a stylesheet

Str(c) == <<c>>

Elements ==
    { Element("div", Attrs(None, None)),
      Element("div", Attrs(Some("a"), Some(<<"c", " ", "d">>))),
      Element("p", Attrs(None, Some(<<"c">>))) }

Selectors ==
    { SimpleSelector(Some("div"), None, <<>>),
      SimpleSelector(None, None, <<Str("c")>>),
      SimpleSelector(None, Some("a"), <<>>),
      SimpleSelector(None, None, <<Str("c"), Str("d")>>) }

Declarations ==
    { Declaration("color", Keyword("red")),
      Declaration("color", Keyword("blue")),
      Declaration("color", Keyword("inherit")),
      Declaration("margin", Length(F(8), "Px")),
      Declaration("margin", Keyword("inherit")) }

\* Rules with one selector and one declaration
SimpleRules ==
    {Rule(<<s>>, <<d>>) :
        s \in {t \in Selectors : Len(t.class) <= 1},
        d \in {e \in Declarations : e # Declaration("color", Keyword("inherit"))}}

\* Rules with a selector list or a declaration list of length two
ListRules ==
    {Rule(<<s1, s2>>, <<d>>) : s1 \in Selectors, s2 \in Selectors, d \in Declarations}
    \cup {Rule(<<s>>, <<d1, d2>>) : s \in Selectors, d1 \in Declarations, d2 \in Declarations}

RECURSIVE SeqsUpTo(_, _)
SeqsUpTo(S, n) ==
    IF n = 0 THEN {<<>>}
    ELSE LET shorter == SeqsUpTo(S, n - 1)
         IN shorter \cup {Append(q, x) : q \in {r \in shorter : Len(r) = n - 1}, x \in S}

\* Shapes of the ordered trees with n nodes numbered in document order:
\* parent[i] is the parent of node i (0 for the root, node 1), and the parent
\* of node i + 1 is node i or one of its ancestors.
RECURSIVE IsAncestorOrSelf(_, _, _)
IsAncestorOrSelf(parent, a, i) ==
    IF i = 0 THEN FALSE ELSE a = i \/ IsAncestorOrSelf(parent, a, parent[i])

Shapes(n) ==
    {parent \in [1..n -> 0..(n - 1)] :
        /\ parent[1] = 0
        /\ \A i \in 2..n : parent[i] >= 1 /\ IsAncestorOrSelf(parent, parent[i], i - 1)}

\* The children of node k, in document order
ChildrenOf(parent, k) ==
    SelectSeq([i \in 1..Len(parent) |-> i], LAMBDA i : parent[i] = k)

\* The document tree of a shape whose node i has node type types[i]
RECURSIVE DocTree(_, _, _)
DocTree(parent, types, k) ==
    LET kids == ChildrenOf(parent, k)
    IN Node(types[k], [i \in 1..Len(kids) |-> DocTree(parent, types, kids[i])])

NodeTypes == Elements \cup {Text("t")}

\* Text nodes are leaves (html.rs parse_text)
TextIsLeaf(parent, types) == \A i \in 2..Len(parent) : types[parent[i]].kind = "Element"

\* A parent element with one child element
FamilyDocs ==
    {Node(Element("div", Attrs(None, None)), <<Node(e, <<>>)>>) : e \in Elements}

SimpleSheets == {Stylesheet(rs) : rs \in SeqsUpTo(SimpleRules, MaxRules)}

ListSheets ==
    {Stylesheet(<<r>>) : r \in ListRules}
    \cup {Stylesheet(<<r, q>>) : r \in ListRules, q \in SimpleRules}
    \cup {Stylesheet(<<q, r>>) : r \in ListRules, q \in SimpleRules}

SmallSheets == {Stylesheet(rs) : rs \in SeqsUpTo(SimpleRules, 1)}

NoValue == <<>>

-----------------------------------------------------------------------------
(* The style resolver as a state machine *)

\* Any document with a stylesheet of at most one rule, or a parent with one
\* child under any stylesheet.
StyleInit ==
    /\ mode = "style"
    /\ pc = "input"
    /\ \/ /\ \E n \in 1..MaxNodes : \E parent \in Shapes(n) : \E types \in [1..n -> NodeTypes] :
                /\ TextIsLeaf(parent, types)
                /\ doc = DocTree(parent, types, 1)
          /\ sheet \in SmallSheets
       \/ /\ doc \in FamilyDocs
          /\ sheet \in SimpleSheets \cup ListSheets
    /\ styled = NoValue
    /\ snode = NoValue
    /\ viewport = NoValue
    /\ lay = NoValue
    /\ receiver = NoValue
    /\ source = NoValue
    /\ out = NoValue

\* style_tree(&root, &stylesheet)
StyleTree ==
    /\ mode = "style"
    /\ pc = "input"
    /\ styled' = style_tree(doc, sheet)
    /\ pc' = "done"
    /\ UNCHANGED <<mode, doc, sheet, snode, viewport, lay, receiver, source, out>>

StyleNext == StyleTree

StyleSpec == StyleInit /\ [][StyleNext]_vars

-----------------------------------------------------------------------------
(* Vocabulary of the properties of the style resolver *)

StyleProps == {"color", "font-size", "font-weight", "line-height", "margin"}

\* Every element node of a styled tree with the property map of its parent:
\* child is FALSE for the root, whose parent map is the default map.
RECURSIVE Contexts(_, _, _)
Contexts(st, parent_map, child) ==
    (IF st.node.node_type.kind = "Element"
     THEN {[elem |-> st.node.node_type, parent |-> parent_map,
            values |-> st.specified_values, child |-> child]}
     ELSE {})
    \cup UNION {Contexts(st.children[i], st.specified_values, TRUE) : i \in 1..Len(st.children)}

StyledElements == Contexts(styled, create_default_props, FALSE)

RuleIndices == 1..Len(sheet.rules)

RuleMatches(elem, i) ==
    \E k \in 1..Len(sheet.rules[i].selectors) : matches(elem, sheet.rules[i].selectors[k])

\* The selector of rule i that decides its place in the cascade
MatchingSelector(elem, i) ==
    LET sels == sheet.rules[i].selectors
        k == CHOOSE k \in 1..Len(sels) :
                 /\ matches(elem, sels[k])
                 /\ \A m \in 1..(k - 1) : ~matches(elem, sels[m])
    IN sels[k]

\* Lexicographic rank of (id count, class count, tag count); the counts of
\* the selectors considered stay below 10.
Weight(selector) ==
    100 * Len(selector.id) + 10 * Len(selector.class) + Len(selector.tag_name)

RuleWeight(elem, i) == Weight(MatchingSelector(elem, i))

DeclIndices(i, p) ==
    {k \in 1..Len(sheet.rules[i].declarations) : sheet.rules[i].declarations[k].name = p}

Declares(i, p) == DeclIndices(i, p) # {}

DeclaresOnlyValues(i, p) ==
    /\ Declares(i, p)
    /\ \A k \in DeclIndices(i, p) : sheet.rules[i].declarations[k].value # Keyword("inherit")

LastDeclared(i, p) ==
    LET k == CHOOSE k \in DeclIndices(i, p) : \A m \in DeclIndices(i, p) : m <= k
    IN sheet.rules[i].declarations[k].value

\* Rules i < j are the two latest rules of the greatest weight that declare p
\* for the element, both with plain values.
EqualPair(c, p, i, j) ==
    /\ i < j
    /\ RuleMatches(c.elem, i) /\ RuleMatches(c.elem, j)
    /\ RuleWeight(c.elem, i) = RuleWeight(c.elem, j)
    /\ DeclaresOnlyValues(i, p) /\ DeclaresOnlyValues(j, p)
    /\ \A k \in RuleIndices :
          RuleMatches(c.elem, k) /\ Declares(k, p) =>
             \/ RuleWeight(c.elem, k) < RuleWeight(c.elem, j)
             \/ RuleWeight(c.elem, k) = RuleWeight(c.elem, j) /\ k <= j

\* The declarations of rule i for p that take effect on the element: those
\* with a plain value, and those with inherit when the parent has an entry
EffectiveIndices(c, i, p) ==
    {k \in DeclIndices(i, p) :
        sheet.rules[i].declarations[k].value = Keyword("inherit") => p \in DOMAIN c.parent}

\* The value rule i gives p: that of its last effective declaration
RuleValue(c, i, p) ==
    LET k == CHOOSE k \in EffectiveIndices(c, i, p) : \A m \in EffectiveIndices(c, i, p) : m <= k
        v == sheet.rules[i].declarations[k].value
    IN IF v = Keyword("inherit") THEN c.parent[p] ELSE v

\* Rule j gives p a value and outranks every other matching rule that
\* declares p, of which there is at least one.
TopRule(c, p, j) ==
    /\ RuleMatches(c.elem, j)
    /\ EffectiveIndices(c, j, p) # {}
    /\ \E k \in RuleIndices \ {j} : RuleMatches(c.elem, k) /\ Declares(k, p)
    /\ \A k \in RuleIndices \ {j} :
          RuleMatches(c.elem, k) /\ Declares(k, p) =>
              RuleWeight(c.elem, k) < RuleWeight(c.elem, j)

HasValue(m, p, v) == p \in DOMAIN m /\ m[p] = v

-----------------------------------------------------------------------------
(* C1: style_tree returns a tree of the same shape as the document: the    *)
(* styled root refers to the document root and, at every node, the styled  *)
(* children correspond one to one and in order to the node's children.     *)

RECURSIVE SameShape(_, _)
SameShape(st, node) ==
    /\ st.node = node
    /\ Len(st.children) = Len(node.children)
    /\ \A i \in 1..Len(node.children) : SameShape(st.children[i], node.children[i])

C1_ShapePreserved == pc = "done" => SameShape(styled, doc)

C1_Witness ==
    /\ pc = "done"
    /\ Len(doc.children) = 2
    /\ doc.children[1].node_type.kind = "Text"
    /\ doc.children[2].node_type.kind = "Element"
    /\ SameShape(styled, doc)

(* C2: of two matching rules of equal specificity that both declare a      *)
(* property with values other than inherit, and that no matching rule of   *)
(* higher specificity overrides, the one later in the stylesheet gives the *)
(* element its value.                                                      *)

C2_LaterRuleWins ==
    pc = "done" =>
        \A c \in StyledElements : \A p \in StyleProps : \A i, j \in RuleIndices :
            EqualPair(c, p, i, j) => HasValue(c.values, p, LastDeclared(j, p))

C2_Witness ==
    /\ pc = "done"
    /\ \E c \in StyledElements : \E p \in StyleProps : \E i, j \in RuleIndices :
          /\ EqualPair(c, p, i, j)
          /\ LastDeclared(i, p) # LastDeclared(j, p)
          /\ HasValue(c.values, p, LastDeclared(j, p))

(* C3: among the matching rules that declare a property, the rule whose    *)
(* matching selector has the greatest (id, class, tag) specificity gives   *)
(* the element its value, wherever the rules stand in the stylesheet: an   *)
(* id outranks any number of classes, a class any tag name.                *)

C3_SpecificityWins ==
    pc = "done" =>
        \A c \in StyledElements : \A p \in StyleProps : \A j \in RuleIndices :
            TopRule(c, p, j) => HasValue(c.values, p, RuleValue(c, j, p))

\* The id rule stands before a rule of two classes and still wins
C3_Witness ==
    /\ pc = "done"
    /\ \E c \in StyledElements : \E p \in StyleProps : \E j, k \in RuleIndices :
          /\ TopRule(c, p, j)
          /\ j < k
          /\ DeclaresOnlyValues(j, p)
          /\ RuleMatches(c.elem, k) /\ DeclaresOnlyValues(k, p)
          /\ MatchingSelector(c.elem, j).id # None
          /\ Len(MatchingSelector(c.elem, k).class) = 2
          /\ LastDeclared(k, p) # LastDeclared(j, p)
          /\ HasValue(c.values, p, LastDeclared(j, p))

(* C4: an element for which no matching rule declares an inheritable       *)
(* property (color, font-size, font-weight, line-height) has its parent    *)
(* element's value for it; the root under an empty stylesheet has          *)
(* color #000000, font-size 16px, font-weight normal, line-height normal,  *)
(* and so has every element when no rule declares any of the four.         *)

Inheritable == {"color", "font-size", "font-weight", "line-height"}

HasDefaults(m) ==
    /\ HasValue(m, "color", Keyword("#000000"))
    /\ HasValue(m, "font-size", Length(F(16), "Px"))
    /\ HasValue(m, "font-weight", Keyword("normal"))
    /\ HasValue(m, "line-height", Keyword("normal"))

Undeclared(c, p) == \A i \in RuleIndices : RuleMatches(c.elem, i) => ~Declares(i, p)

C4_InheritanceDefault ==
    pc = "done" =>
        /\ \A c \in StyledElements : \A p \in Inheritable :
              c.child /\ Undeclared(c, p) =>
                  p \in DOMAIN c.parent /\ HasValue(c.values, p, c.parent[p])
        /\ sheet.rules = <<>> /\ doc.node_type.kind = "Element" =>
              DOMAIN styled.specified_values = Inheritable /\ HasDefaults(styled.specified_values)
        /\ (\A i \in RuleIndices : \A p \in Inheritable : ~Declares(i, p)) =>
              \A c \in StyledElements : HasDefaults(c.values)

\* A grandchild without a color rule takes the color a rule gave its parent
C4_Witness ==
    /\ pc = "done"
    /\ \E c \in StyledElements :
          /\ c.child
          /\ Undeclared(c, "color")
          /\ HasValue(c.parent, "color", Keyword("red"))
          /\ HasValue(c.values, "color", Keyword("red"))
          /\ HasValue(c.values, "font-size", Length(F(16), "Px"))

(* C5: a declaration X: inherit on a child element that is the last one    *)
(* applied for X leaves the child with the parent's entry for X, for any   *)
(* property name X, and the keyword inherit is never stored.               *)

\* The values declared for property p by the rules matching the element, in
\* the order in which specified_values applies them
RECURSIVE DeclaredValues(_, _, _)
DeclaredValues(declarations, k, p) ==
    IF k > Len(declarations) THEN <<>>
    ELSE (IF declarations[k].name = p THEN <<declarations[k].value>> ELSE <<>>)
         \o DeclaredValues(declarations, k + 1, p)

RECURSIVE AppliedFrom(_, _, _)
AppliedFrom(rules, i, p) ==
    IF i > Len(rules) THEN <<>>
    ELSE DeclaredValues(rules[i][2].declarations, 1, p) \o AppliedFrom(rules, i + 1, p)

AppliedValues(elem, p) == AppliedFrom(sort_by(matching_rules(elem, sheet)), 1, p)

InheritWins(c, p) ==
    LET vs == AppliedValues(c.elem, p)
    IN c.child /\ vs # <<>> /\ vs[Len(vs)] = Keyword("inherit")

NeverStoresInherit ==
    \A c \in StyledElements : \A p \in DOMAIN c.values : c.values[p] # Keyword("inherit")

C5_ExplicitInherit ==
    pc = "done" =>
        /\ \A c \in StyledElements : \A p \in StyleProps :
              InheritWins(c, p) => Get(c.values, p) = Get(c.parent, p)
        /\ NeverStoresInherit

(* C5 as amended: the child gets the parent's value for X when the parent  *)
(* has one; when it has none the declaration is dropped, and X keeps the   *)
(* last plain value applied before it, or stays absent.                    *)

C5_ExplicitInheritAmended ==
    pc = "done" =>
        /\ \A c \in StyledElements : \A p \in StyleProps :
              InheritWins(c, p) =>
                  IF p \in DOMAIN c.parent
                  THEN HasValue(c.values, p, c.parent[p])
                  ELSE LET plain == SelectSeq(AppliedValues(c.elem, p),
                                              LAMBDA v : v # Keyword("inherit"))
                       IN IF plain # <<>>
                          THEN HasValue(c.values, p, plain[Len(plain)])
                          ELSE p \notin DOMAIN c.values
        /\ NeverStoresInherit

\* margin is not an inheritable property; the child gets the parent's 8px
C5_Witness ==
    /\ pc = "done"
    /\ \E c \in StyledElements :
          /\ InheritWins(c, "margin")
          /\ HasValue(c.parent, "margin", Length(F(8), "Px"))
          /\ HasValue(c.values, "margin", Length(F(8), "Px"))

-----------------------------------------------------------------------------
(* Bounded inputs of layout_tree *)

MaxBoxes == 4        \* nodes of a styled tree that varies display only
MaxBlocks == 4       \* nodes of a styled tree that varies heights and margins
MaxSiblings == 4     \* children of a parent whose children vary their edges

Px(n) == Length(F(n), "Px")

\* The document node a hand-built styled node refers to (layout.rs 338-354)
AnyNode == Node(Element("div", Attrs(None, None)), <<>>)

WithOpt(m, name, opt) == IF opt = None THEN m ELSE Insert(m, name, opt[1])

BlockMap == Insert(EmptyMap, "display", Keyword("block"))

\* Property maps of a block box with every combination of width and margins
WidthMaps ==
    { WithOpt(WithOpt(WithOpt(WithOpt(WithOpt(WithOpt(BlockMap,
          "width", w), "margin", m), "margin-left", ml), "margin-right", mr),
          "padding", p), "border-width", b) :
        w \in {None, Some(auto), Some(Px(100)), Some(Px(150)), Some(Px(400)), Some(Percentage(F(50))),
               Some(Keyword("thin"))},
        m \in {None, Some(Px(8)), Some(auto)},
        ml \in {None, Some(auto), Some(Px(2)), Some(Percentage(F(10)))},
        mr \in {None, Some(auto), Some(Px(2))},
        p \in {None, Some(Px(4))},
        b \in {None, Some(Px(1))} }

\* Children of the box under test; the first is the child of the test at
\* layout.rs 341-345
ChildMaps ==
    { Insert(Insert(Insert(BlockMap, "margin-left", Px(2)), "width", Px(100)), "height", Px(200)),
      Insert(Insert(Insert(BlockMap, "margin-left", auto), "margin-right", auto), "width", Px(400)),
      Insert(BlockMap, "margin", Px(8)) }

WidthTrees ==
    {StyledNode(AnyNode, m, <<>>) : m \in WidthMaps}
    \cup {StyledNode(AnyNode, m, <<StyledNode(AnyNode, c, <<>>)>>) : m \in WidthMaps, c \in ChildMaps}

\* display absent, block, none, inline
DisplayMaps ==
    { EmptyMap, BlockMap, Insert(EmptyMap, "display", Keyword("none")),
      Insert(EmptyMap, "display", Keyword("inline")) }

\* Blocks with and without a height and a margin, and an inline node
GeometryMaps ==
    { BlockMap,
      Insert(BlockMap, "margin", Px(8)),
      Insert(BlockMap, "height", Px(50)),
      Insert(BlockMap, "height", Px(30)),
      EmptyMap }

\* Children with edges on single sides and on every side, with a pixel and
\* a keyword height, two inline children and one that is not displayed
EdgeMaps ==
    { Insert(Insert(BlockMap, "height", Px(50)), "margin-top", Px(2)),
      Insert(Insert(Insert(BlockMap, "height", Px(30)), "padding", Px(4)), "border-width", Px(1)),
      Insert(Insert(BlockMap, "height", auto), "padding-top", Px(4)),
      EmptyMap,
      Insert(EmptyMap, "display", Keyword("inline")),
      Insert(Insert(EmptyMap, "display", Keyword("none")), "height", Px(50)) }

\* Parents with a keyword, a percentage and a pixel height
StackRoots ==
    { Insert(BlockMap, "height", auto),
      Insert(Insert(BlockMap, "height", Percentage(F(50))), "margin", Px(8)),
      Insert(Insert(BlockMap, "height", Px(10)), "padding", Px(4)) }

\* A parent with up to MaxSiblings children that have no children
StackTrees ==
    {StyledNode(AnyNode, r, [i \in 1..Len(ms) |-> StyledNode(AnyNode, ms[i], <<>>)]) :
        r \in StackRoots, ms \in SeqsUpTo(EdgeMaps, MaxSiblings)}

\* The styled tree of a shape whose node i has property map maps[i]
RECURSIVE StyledTree(_, _, _)
StyledTree(parent, maps, k) ==
    LET kids == ChildrenOf(parent, k)
    IN StyledNode(AnyNode, maps[k], [i \in 1..Len(kids) |-> StyledTree(parent, maps, kids[i])])

\* Dimensions::default() with the content size set by the caller
\* (main.rs 24-26, layout.rs 298-303)
Viewport(width, height) == [DefaultDimensions EXCEPT !.content.width = width, !.content.height = height]

-----------------------------------------------------------------------------
(* The layout engine as a state machine *)

LayoutInit ==
    /\ mode = "layout"
    /\ pc = "input"
    /\ doc = NoValue
    /\ sheet = NoValue
    /\ styled = NoValue
    /\ \/ /\ snode \in WidthTrees
          /\ viewport \in {Viewport(F(w), F(h)) : w \in {10, 100, 800}, h \in {0, 600}}
       \/ /\ \E n \in 1..MaxBoxes : \E parent \in Shapes(n) : \E maps \in [1..n -> DisplayMaps] :
                snode = StyledTree(parent, maps, 1)
          /\ viewport = Viewport(F(800), F(600))
       \/ /\ \E n \in 1..MaxBlocks : \E parent \in Shapes(n) : \E maps \in [1..n -> GeometryMaps] :
                snode = StyledTree(parent, maps, 1)
          /\ viewport = Viewport(F(800), F(600))
       \/ /\ snode \in StackTrees
          /\ viewport = [Viewport(F(800), F(600)) EXCEPT !.content.x = F(10), !.content.y = F(20)]
    /\ lay = NoValue
    /\ receiver = NoValue
    /\ source = NoValue
    /\ out = NoValue

\* layout_tree(&styled_node, viewport): the call writes the containing block
\* through the shared Rc<RefCell<Dimensions>>
LayoutTree ==
    /\ mode = "layout"
    /\ pc = "input"
    /\ LET r == layout_tree(snode, viewport)
       IN lay' = r.result /\ viewport' = r.containing_block
    /\ pc' = "done"
    /\ UNCHANGED <<mode, doc, sheet, styled, snode, receiver, source, out>>

LayoutNext == LayoutTree

LayoutSpec == LayoutInit /\ [][LayoutNext]_vars

-----------------------------------------------------------------------------
(* Vocabulary of the properties of the layout engine *)

Laid == pc = "done" /\ mode = "layout" /\ ~IsPanic(lay)

StyleOf(box) == box.box_type.node[1]

\* The Block boxes that layout reaches (the root and, below a Block box that
\* is reached, its Block children), each with its containing block as the
\* call leaves it.
RECURSIVE LaidBlocks(_, _)
LaidBlocks(box, containing) ==
    IF box.box_type.kind # "BlockNode" THEN {}
    ELSE {[box |-> box, containing |-> containing]}
         \cup UNION {LaidBlocks(box.children[i], box.dimensions) : i \in 1..Len(box.children)}

LaidBlockBoxes == LaidBlocks(lay, viewport)

\* Every box of the layout tree
RECURSIVE Boxes(_)
Boxes(box) == {box} \cup UNION {Boxes(box.children[i]) : i \in 1..Len(box.children)}

SpecifiedWidth(st) == IF "width" \in DOMAIN st.specified_values THEN st.specified_values["width"] ELSE auto
SpecifiedMarginLeft(st) == lookup(st, "margin-left", "margin", zero)
SpecifiedMarginRight(st) == lookup(st, "margin-right", "margin", zero)

\* Pixel sum of the left and right border and padding
InnerEdges(st) ==
    to_px(lookup(st, "border-left-width", "border-width", zero))
    + to_px(lookup(st, "border-right-width", "border-width", zero))
    + to_px(lookup(st, "padding-left", "padding", zero))
    + to_px(lookup(st, "padding-right", "padding", zero))

\* total of calculate_block_width: auto counts as 0
Total(st) ==
    to_px(SpecifiedMarginLeft(st)) + to_px(SpecifiedMarginRight(st)) + InnerEdges(st)
    + to_px(SpecifiedWidth(st))

Underflow(c) == c.containing.content.width - Total(StyleOf(c.box))

IsPxLength(v) == v.kind = "Length" /\ v.s = "Px"

\* The specified margin, border and padding are zero on every side
NoEdges(st) ==
        /\ \A name \in {"margin-left", "margin-right", "margin-top", "margin-bottom"} :
              to_px(lookup(st, name, "margin", zero)) = 0
        /\ \A name \in {"border-left-width", "border-right-width",
                        "border-top-width", "border-bottom-width"} :
              to_px(lookup(st, name, "border-width", zero)) = 0
        /\ \A name \in {"padding-left", "padding-right", "padding-top", "padding-bottom"} :
              to_px(lookup(st, name, "padding", zero)) = 0

(* C6: a Block box with width auto or unset and a non-negative underflow   *)
(* gets content width = containing width minus the left and right margin,  *)
(* border and padding, and every auto margin becomes 0; in a containing    *)
(* width of 800, margin 8 gives 784 and margin 8 with padding 4 gives 776. *)

WidthAutoFits(c) ==
    SpecifiedWidth(StyleOf(c.box)) = auto /\ Underflow(c) >= 0

C6_AutoWidthFills ==
    Laid =>
        \A c \in LaidBlockBoxes :
            LET st == StyleOf(c.box)
                d == c.box.dimensions
            IN WidthAutoFits(c) =>
                /\ d.content.width = c.containing.content.width
                       - (to_px(SpecifiedMarginLeft(st)) + to_px(SpecifiedMarginRight(st))
                          + InnerEdges(st))
                /\ SpecifiedMarginLeft(st) = auto => d.margin.left = 0
                /\ SpecifiedMarginRight(st) = auto => d.margin.right = 0
                /\ d.margin.left = to_px(SpecifiedMarginLeft(st))
                /\ d.margin.right = to_px(SpecifiedMarginRight(st))
                /\ ( /\ c.containing.content.width = F(800)
                     /\ SpecifiedMarginLeft(st) = Px(8) /\ SpecifiedMarginRight(st) = Px(8) ) =>
                       /\ InnerEdges(st) = 0 => d.content.width = F(784)
                       /\ InnerEdges(st) = F(8) => d.content.width = F(776)

C6_Witness ==
    /\ Laid
    /\ lay.box_type.kind = "BlockNode"
    /\ viewport.content.width = F(800)
    /\ StyleOf(lay).specified_values = Insert(BlockMap, "margin", Px(8))
    /\ lay.dimensions.content.width = F(784)
    /\ lay.dimensions.margin.left = F(8) /\ lay.dimensions.margin.right = F(8)

(* C7: a Block box with a pixel width and both margin-left and margin-right *)
(* auto, whose total does not exceed the containing width, keeps its width  *)
(* and gets margin-left = margin-right = underflow / 2; width 400 in a      *)
(* containing width of 800 gives margins of 200.                            *)

Centered(c) ==
    LET st == StyleOf(c.box)
    IN /\ IsPxLength(SpecifiedWidth(st))
       /\ SpecifiedMarginLeft(st) = auto /\ SpecifiedMarginRight(st) = auto
       /\ Total(st) <= c.containing.content.width

C7_AutoMarginsCenter ==
    Laid =>
        \A c \in LaidBlockBoxes :
            LET st == StyleOf(c.box)
                d == c.box.dimensions
            IN Centered(c) =>
                /\ d.content.width = SpecifiedWidth(st).f
                /\ d.margin.left = d.margin.right
                /\ d.margin.left + d.margin.right = Underflow(c)
                /\ (c.containing.content.width = F(800) /\ SpecifiedWidth(st) = Px(400)
                    /\ InnerEdges(st) = 0) => d.margin.left = F(200) /\ d.margin.right = F(200)

C7_Witness ==
    /\ Laid
    /\ \E c \in LaidBlockBoxes :
          /\ Centered(c)
          /\ c.containing.content.width = F(800)
          /\ SpecifiedWidth(StyleOf(c.box)) = Px(400)
          /\ c.box.dimensions.margin.left = F(200)
          /\ c.box.dimensions.margin.right = F(200)
          /\ c.box.dimensions.content.width = F(400)

(* C8: a Block box none of whose width, margin-left and margin-right is    *)
(* auto keeps its width and margin-left and gets margin-right = specified  *)
(* margin-right + underflow, also when the underflow is negative; width    *)
(* 150 with zero margins in a containing width of 100 gives margin-right   *)
(* -50.                                                                    *)

NoneAuto(c) ==
    LET st == StyleOf(c.box)
    IN SpecifiedWidth(st) # auto /\ SpecifiedMarginLeft(st) # auto /\ SpecifiedMarginRight(st) # auto

C8_MarginRightAbsorbs ==
    Laid =>
        \A c \in LaidBlockBoxes :
            LET st == StyleOf(c.box)
                d == c.box.dimensions
            IN NoneAuto(c) =>
                /\ d.content.width = to_px(SpecifiedWidth(st))
                /\ d.margin.left = to_px(SpecifiedMarginLeft(st))
                /\ d.margin.right = to_px(SpecifiedMarginRight(st)) + Underflow(c)
                /\ (c.containing.content.width = F(100) /\ SpecifiedWidth(st) = Px(150)
                    /\ Total(st) = F(150)) =>
                       d.content.width = F(150) /\ d.margin.right = -F(50)

C8_Witness ==
    /\ Laid
    /\ \E c \in LaidBlockBoxes :
          /\ NoneAuto(c)
          /\ c.containing.content.width = F(100)
          /\ StyleOf(c.box).specified_values = Insert(BlockMap, "width", Px(150))
          /\ c.box.dimensions.content.width = F(150)
          /\ c.box.dimensions.margin.left = 0
          /\ c.box.dimensions.margin.right = -F(50)

(* C9: two Block siblings with explicit heights h1 and h2 and no margin,   *)
(* border or padding, under one Block parent that layout reaches: the      *)
(* second sibling's content.y is the parent's content.y + h1, and the      *)
(* parent's content height is h1 + h2 unless the parent has a pixel        *)
(* height; heights 50 and 30 give offset 50 and parent height 80.          *)

HasPxHeight(st) ==
    "height" \in DOMAIN st.specified_values /\ IsPxLength(st.specified_values["height"])

BlockChildren(box) == {i \in 1..Len(box.children) : box.children[i].box_type.kind = "BlockNode"}

\* Children i < j are the two Block children of the box, both of explicit
\* height and without edges
TwoSiblings(box, i, j) ==
    /\ BlockChildren(box) = {i, j}
    /\ i < j
    /\ \A k \in {i, j} : HasPxHeight(StyleOf(box.children[k])) /\ NoEdges(StyleOf(box.children[k]))

SiblingHeight(box, k) == StyleOf(box.children[k]).specified_values["height"].f

Kinds(boxes) == [i \in 1..Len(boxes) |-> boxes[i].box_type.kind]

\* The children of a box with every Anonymous child replaced by its children
RECURSIVE Unwrapped(_, _)
Unwrapped(boxes, i) ==
    IF i > Len(boxes) THEN <<>>
    ELSE (IF boxes[i].box_type.kind = "AnonymousBlock" THEN boxes[i].children ELSE <<boxes[i]>>)
         \o Unwrapped(boxes, i + 1)

\* The style children that are not display: none, in document order
Displayed(style_children) == SelectSeq(style_children, LAMBDA ch : display(ch) # "None")

GroupedRuns(box) ==
    LET shown == Displayed(StyleOf(box).children)
        flat == Unwrapped(box.children, 1)
    IN /\ \A i \in 1..Len(box.children) :
             \/ box.children[i].box_type.kind = "BlockNode"
             \/ /\ box.children[i].box_type.kind = "AnonymousBlock"
                /\ box.children[i].children # <<>>
                /\ \A k \in 1..Len(box.children[i].children) :
                      box.children[i].children[k].box_type.kind = "InlineNode"
       /\ \A i \in 1..(Len(box.children) - 1) :
             ~(box.children[i].box_type.kind = "AnonymousBlock"
               /\ box.children[i + 1].box_type.kind = "AnonymousBlock")
       /\ Len(flat) = Len(shown)
       /\ \A k \in 1..Len(flat) :
             /\ flat[k].box_type.node = Some(shown[k])
             /\ flat[k].box_type.kind =
                    (IF display(shown[k]) = "Block" THEN "BlockNode" ELSE "InlineNode")

IsBlockInlineInlineBlock(style_children) ==
    /\ Len(style_children) = 4
    /\ display(style_children[1]) = "Block" /\ display(style_children[2]) = "Inline"
    /\ display(style_children[3]) = "Inline" /\ display(style_children[4]) = "Block"

C10_InlineRunsWrappedOnce ==
    Laid =>
        \A box \in Boxes(lay) :
            box.box_type.kind = "BlockNode" =>
                /\ GroupedRuns(box)
                /\ IsBlockInlineInlineBlock(StyleOf(box).children) =>
                       /\ Kinds(box.children) = <<"BlockNode", "AnonymousBlock", "BlockNode">>
                       /\ Len(box.children[2].children) = 2

C10_Witness ==
    /\ Laid
    /\ lay.box_type.kind = "BlockNode"
    /\ IsBlockInlineInlineBlock(snode.children)
    /\ snode.children[2] # snode.children[3]
    /\ Kinds(lay.children) = <<"BlockNode", "AnonymousBlock", "BlockNode">>
    /\ Kinds(lay.children[2].children) = <<"InlineNode", "InlineNode">>
    /\ lay.children[2].children[1].box_type.node = Some(snode.children[2])
    /\ lay.children[2].children[2].box_type.node = Some(snode.children[3])

(* C11 as stated: a Block box of the layout tree has at most one Anonymous *)
(* child and, when it has one, that child is its last child.               *)

AnonymousChildren(box) ==
    {i \in 1..Len(box.children) : box.children[i].box_type.kind = "AnonymousBlock"}

C11_OneTrailingAnonymous ==
    Laid =>
        \A box \in Boxes(lay) :
            box.box_type.kind = "BlockNode" =>
                /\ Cardinality(AnonymousChildren(box)) <= 1
                /\ AnonymousChildren(box) \subseteq {Len(box.children)}

\* The kinds of the children that a run of displayed style children gives a
\* Block box: a Block box per block child, one Anonymous box per maximal run
\* of inline children
RECURSIVE RunKinds(_, _)
RunKinds(shown, i) ==
    IF i > Len(shown) THEN <<>>
    ELSE IF display(shown[i]) = "Block" THEN <<"BlockNode">> \o RunKinds(shown, i + 1)
    ELSE IF i > 1 /\ display(shown[i - 1]) # "Block" THEN RunKinds(shown, i + 1)
    ELSE <<"AnonymousBlock">> \o RunKinds(shown, i + 1)

\* Some inline child comes before a block child among the displayed children
InlineBeforeBlock(shown) ==
    \E i, j \in 1..Len(shown) : i < j /\ display(shown[i]) # "Block" /\ display(shown[j]) = "Block"

(* C11 amended: the direct children of a Block box are Block boxes and     *)
(* Anonymous boxes, one Anonymous box per maximal run of consecutive       *)
(* non-Block displayed children, in document order, so no two Anonymous    *)
(* children are adjacent; the box has at most one Anonymous child, placed  *)
(* last, exactly when no inline child comes before a block child.          *)
C11_OneAnonymousPerRun ==
    Laid =>
        \A box \in Boxes(lay) :
            box.box_type.kind = "BlockNode" =>
                LET shown == Displayed(StyleOf(box).children)
                IN /\ Kinds(box.children) = RunKinds(shown, 1)
                   /\ \A i \in AnonymousChildren(box) : i + 1 \notin AnonymousChildren(box)
                   /\ ~InlineBeforeBlock(shown) <=>
                          /\ Cardinality(AnonymousChildren(box)) <= 1
                          /\ AnonymousChildren(box) \subseteq {Len(box.children)}

C11_Witness ==
    /\ Laid
    /\ lay.box_type.kind = "BlockNode"
    /\ Len(snode.children) = 3
    /\ display(snode.children[1]) = "Inline" /\ display(snode.children[2]) = "Block"
    /\ display(snode.children[3]) = "Inline"
    /\ Kinds(lay.children) = <<"AnonymousBlock", "BlockNode", "AnonymousBlock">>

(* C12: a non-root styled node with display: none and its subtree have no  *)
(* box in the layout tree, and the layout tree (kinds, children and        *)
(* Dimensions of every box) is the one layout_tree gives for the styled    *)
(* tree without that node.                                                 *)

\* The paths (child indices from the root) of the non-root nodes with
\* display: none
RECURSIVE NonePaths(_)
NonePaths(st) ==
    UNION { (IF display(st.children[i]) = "None" THEN {<<i>>} ELSE {})
            \cup {<<i>> \o p : p \in NonePaths(st.children[i])} : i \in 1..Len(st.children) }

RemoveIndex(seq, i) == [k \in 1..(Len(seq) - 1) |-> IF k < i THEN seq[k] ELSE seq[k + 1]]

\* The styled tree without the node at the path
RECURSIVE RemoveAt(_, _)
RemoveAt(st, p) ==
    IF Len(p) = 1 THEN [st EXCEPT !.children = RemoveIndex(@, p[1])]
    ELSE [st EXCEPT !.children[p[1]] = RemoveAt(@, Tail(p))]

\* The styled tree without any node that is not displayed
RECURSIVE Prune(_)
Prune(st) ==
    LET shown == Displayed(st.children)
    IN [st EXCEPT !.children = [i \in 1..Len(shown) |-> Prune(shown[i])]]

\* A layout tree with every style reference taken up to the nodes that are
\* not displayed
RECURSIVE Strip(_)
Strip(box) ==
    [kind |-> box.box_type.kind,
     node |-> IF box.box_type.node = None THEN None ELSE Some(Prune(box.box_type.node[1])),
     dimensions |-> box.dimensions,
     children |-> [i \in 1..Len(box.children) |-> Strip(box.children[i])]]

RECURSIVE Concat(_, _)
Concat(seqs, i) == IF i > Len(seqs) THEN <<>> ELSE seqs[i] \o Concat(seqs, i + 1)

\* The styled nodes of the boxes of a layout tree, in document order
RECURSIVE BoxNodes(_)
BoxNodes(box) ==
    box.box_type.node \o Concat([i \in 1..Len(box.children) |-> BoxNodes(box.children[i])], 1)

\* The styled nodes that are displayed and lie under displayed nodes only
RECURSIVE VisibleNodes(_)
VisibleNodes(st) ==
    LET shown == Displayed(st.children)
    IN <<st>> \o Concat([i \in 1..Len(shown) |-> VisibleNodes(shown[i])], 1)

C12_NonePruned ==
    Laid =>
        /\ BoxNodes(lay) = VisibleNodes(snode)
        /\ \A p \in NonePaths(snode) :
              LET without == layout_tree(RemoveAt(snode, p), viewport).result
              IN ~IsPanic(without) /\ Strip(without) = Strip(lay)

\* A hidden child with a height between two blocks that stack
C12_Witness ==
    /\ Laid
    /\ lay.box_type.kind = "BlockNode"
    /\ Len(snode.children) = 3
    /\ display(snode.children[2]) = "None"
    /\ value(snode.children[2], "height") = Some(Px(50))
    /\ Kinds(lay.children) = <<"BlockNode", "BlockNode">>
    /\ margin_box(lay.children[1].dimensions).height = F(52)
    /\ lay.children[2].dimensions.content.y = lay.dimensions.content.y + F(52) + F(5)

(* C13: layout_tree on a styled root whose display is none panics with the *)
(* message "Root node has display: none." and returns no layout tree; no   *)
(* other input makes the build phase panic.                                *)

LayoutDone == pc = "done" /\ mode = "layout"

C13_RootNonePanics ==
    LayoutDone =>
        /\ display(snode) = "None" => lay = Panic("Root node has display: none.")
        /\ display(snode) # "None" => ~IsPanic(lay) /\ lay.box_type.node = Some(snode)

C13_Witness ==
    /\ LayoutDone
    /\ display(snode) = "None"
    /\ snode.children # <<>>
    /\ lay = Panic("Root node has display: none.")

(* C14: every text node of the styled tree has an empty property map,      *)
(* whatever the stylesheet and the property map of its parent.             *)

StyleDone == pc = "done" /\ mode = "style"

\* Every node of a styled tree
RECURSIVE StyledNodes(_)
StyledNodes(st) == {st} \cup UNION {StyledNodes(st.children[i]) : i \in 1..Len(st.children)}

C14_TextHasNoProperties ==
    StyleDone =>
        \A st \in StyledNodes(styled) :
            st.node.node_type.kind = "Text" => st.specified_values = EmptyMap

\* A text child of an element that a rule gave a colour
C14_Witness ==
    /\ StyleDone
    /\ styled.node.node_type.kind = "Element"
    /\ HasValue(styled.specified_values, "color", Keyword("red"))
    /\ \E i \in 1..Len(styled.children) :
          /\ styled.children[i].node.node_type.kind = "Text"
          /\ styled.children[i].specified_values = EmptyMap

-----------------------------------------------------------------------------
(* The methods of LayoutBox that read the style node, each called on a box *)
(* of a tree that the build phase made                                     *)

MaxProbe == 3        \* nodes of the styled tree the receiver is built from

BoxInit ==
    /\ mode = "box"
    /\ pc = "input"
    /\ doc = NoValue
    /\ sheet = NoValue
    /\ styled = NoValue
    /\ \E n \in 1..MaxProbe : \E parent \in Shapes(n) : \E maps \in [1..n -> DisplayMaps] :
          /\ snode = StyledTree(parent, maps, 1)
          /\ ~IsPanic(build_layout_tree(snode))
          /\ receiver \in Boxes(build_layout_tree(snode))
    /\ viewport = Viewport(F(800), F(600))
    /\ lay = NoValue
    /\ source = NoValue
    /\ out = NoValue

Returns(method, result) ==
    /\ mode = "box"
    /\ pc = "input"
    /\ out' = [method |-> method, result |-> result]
    /\ pc' = "done"
    /\ UNCHANGED <<mode, doc, sheet, styled, snode, viewport, lay, receiver, source>>

GetStyleNode == Returns("get_style_node", get_style_node(receiver))

CalculateBlockWidth == Returns("calculate_block_width", calculate_block_width(receiver, viewport))

CalculateBlockPosition ==
    Returns("calculate_block_position", calculate_block_position(receiver, viewport))

CalculateBlockHeight == Returns("calculate_block_height", calculate_block_height(receiver))

BoxNext ==
    \/ GetStyleNode
    \/ CalculateBlockWidth
    \/ CalculateBlockPosition
    \/ CalculateBlockHeight

BoxSpec == BoxInit /\ [][BoxNext]_vars

BoxDone == mode = "box" /\ pc = "done"

(* C15: get_style_node on an Anonymous box panics ("Anonymous block box    *)
(* has no style node"), and so do the width, position and height           *)
(* computations that call it; on a Block or Inline box it returns the      *)
(* box's own styled node.                                                  *)

C15_AnonymousHasNoStyleNode ==
    BoxDone =>
        /\ receiver.box_type.kind = "AnonymousBlock" =>
               out.result = Panic("Anonymous block box has no style node")
        /\ (receiver.box_type.kind # "AnonymousBlock" /\ out.method = "get_style_node") =>
               Some(out.result) = receiver.box_type.node

C15_Witness ==
    /\ BoxDone
    /\ receiver.box_type.kind = "AnonymousBlock"
    /\ receiver.children # <<>>
    /\ out.method = "get_style_node"
    /\ IsPanic(out.result)

(* C16: after layout_tree every Inline box and every Anonymous box has     *)
(* all-zero Dimensions, and so has every box below one (layout does not    *)
(* descend into them); its margin-box height is 0, so the accumulated      *)
(* content height of a Block box is the sum over its Block children alone. *)

RECURSIVE SumOfHeights(_, _)
SumOfHeights(boxes, i) ==
    IF i > Len(boxes) THEN 0
    ELSE margin_box(boxes[i].dimensions).height + SumOfHeights(boxes, i + 1)

OnlyBlocks(boxes) == SelectSeq(boxes, LAMBDA b : b.box_type.kind = "BlockNode")

C16_OnlyBlocksComputeGeometry ==
    Laid =>
        /\ \A box \in Boxes(lay) :
              box.box_type.kind \in {"InlineNode", "AnonymousBlock"} =>
                  /\ \A below \in Boxes(box) : below.dimensions = DefaultDimensions
                  /\ margin_box(box.dimensions).height = 0
        /\ \A c \in LaidBlockBoxes :
              ~HasPxHeight(StyleOf(c.box)) =>
                  c.box.dimensions.content.height = SumOfHeights(OnlyBlocks(c.box.children), 1)

\* An inline child that holds a block of height 50, before a block of height
\* 30: the first block is not laid out and the parent is 30 high
C16_Witness ==
    /\ Laid
    /\ lay.box_type.kind = "BlockNode"
    /\ ~HasPxHeight(snode)
    /\ Kinds(lay.children) = <<"AnonymousBlock", "BlockNode">>
    /\ Kinds(lay.children[1].children) = <<"InlineNode">>
    /\ Kinds(lay.children[1].children[1].children) = <<"BlockNode">>
    /\ value(StyleOf(lay.children[1].children[1].children[1]), "height") = Some(Px(50))
    /\ lay.children[1].children[1].children[1].dimensions = DefaultDimensions
    /\ lay.children[2].dimensions.content.height = F(30)
    /\ lay.dimensions.content.height = F(30)

(* C17: the declarations of the matching rules are applied in ascending    *)
(* order of specificity, in stylesheet order among equals and in           *)
(* declaration order within a rule, each replacing the entry of its        *)
(* property: the final value of a property is that of the last declaration *)
(* applied for it (an inherit that finds no parent value is dropped, not   *)
(* applied), also over a value copied by the inheritance pass; a property  *)
(* without an applied declaration keeps the copied value or stays absent.  *)

\* Rule j matches and applies a declaration of p
Applies(c, j, p) == RuleMatches(c.elem, j) /\ EffectiveIndices(c, j, p) # {}

\* Rule j is the last rule in cascade order that applies a declaration of p
LastApplying(c, p, j) ==
    /\ Applies(c, j, p)
    /\ \A k \in RuleIndices \ {j} :
          Applies(c, k, p) =>
              \/ RuleWeight(c.elem, k) < RuleWeight(c.elem, j)
              \/ RuleWeight(c.elem, k) = RuleWeight(c.elem, j) /\ k < j

C17_LastAppliedWins ==
    StyleDone =>
        \A c \in StyledElements : \A p \in StyleProps :
            /\ \A j \in RuleIndices :
                  LastApplying(c, p, j) => HasValue(c.values, p, RuleValue(c, j, p))
            /\ (\A j \in RuleIndices : ~Applies(c, j, p)) =>
                  IF p \in Inheritable /\ p \in DOMAIN c.parent
                  THEN HasValue(c.values, p, c.parent[p])
                  ELSE p \notin DOMAIN c.values

\* A child whose parent is red: a rule of greater specificity that stands
\* first in the stylesheet makes it blue, over the inherited red and over
\* the red of a later rule of smaller specificity
C17_Witness ==
    /\ StyleDone
    /\ \E c \in StyledElements : \E j, k \in RuleIndices :
          /\ c.child
          /\ HasValue(c.parent, "color", Keyword("red"))
          /\ j < k
          /\ LastApplying(c, "color", j)
          /\ Applies(c, k, "color")
          /\ RuleValue(c, j, "color") = Keyword("blue")
          /\ RuleValue(c, k, "color") = Keyword("red")
          /\ HasValue(c.values, "color", Keyword("blue"))

(* C18: a rule is matched against an element at most once and takes its   *)
(* place in the cascade from the first selector of its list that matches,  *)
(* not from its matching selector of greatest specificity; a rule none of  *)
(* whose selectors matches contributes nothing.                            *)

\* The greatest weight among the selectors of rule i that match the element
GreatestWeight(elem, i) ==
    LET ws == {Weight(sheet.rules[i].selectors[k]) :
                  k \in {m \in 1..Len(sheet.rules[i].selectors) :
                            matches(elem, sheet.rules[i].selectors[m])}}
    IN CHOOSE w \in ws : \A v \in ws : v <= w

\* The rules that match the element, in stylesheet order
RECURSIVE MatchedIndices(_, _)
MatchedIndices(elem, i) ==
    IF i > Len(sheet.rules) THEN <<>>
    ELSE (IF RuleMatches(elem, i) THEN <<i>> ELSE <<>>) \o MatchedIndices(elem, i + 1)

\* Rules j and k are the only matching rules that declare p, both with plain
\* values, and the first matching selector of j weighs less than that of k
OrderedPair(c, p, j, k) ==
    /\ RuleMatches(c.elem, j) /\ RuleMatches(c.elem, k)
    /\ DeclaresOnlyValues(j, p) /\ DeclaresOnlyValues(k, p)
    /\ \A m \in RuleIndices \ {j, k} : ~(RuleMatches(c.elem, m) /\ Declares(m, p))
    /\ RuleWeight(c.elem, j) < RuleWeight(c.elem, k)

C18_FirstMatchingSelector ==
    StyleDone =>
        \A c \in StyledElements :
            /\ LET idx == MatchedIndices(c.elem, 1)
               IN matching_rules(c.elem, sheet) =
                      [n \in 1..Len(idx) |->
                          <<specificity(MatchingSelector(c.elem, idx[n])), sheet.rules[idx[n]]>>]
            /\ \A p \in StyleProps :
                  /\ \A j, k \in RuleIndices :
                        OrderedPair(c, p, j, k) => HasValue(c.values, p, LastDeclared(k, p))
                  /\ (\A j \in RuleIndices : Declares(j, p) => ~RuleMatches(c.elem, j)) =>
                        IF p \in Inheritable /\ p \in DOMAIN c.parent
                        THEN HasValue(c.values, p, c.parent[p])
                        ELSE p \notin DOMAIN c.values

\* A rule whose second matching selector outweighs the other rule, but whose
\* first one does not, loses to the other rule
C18_Witness ==
    /\ StyleDone
    /\ \E c \in StyledElements : \E j, k \in RuleIndices :
          /\ OrderedPair(c, "color", j, k)
          /\ GreatestWeight(c.elem, j) > RuleWeight(c.elem, k)
          /\ LastDeclared(j, "color") # LastDeclared(k, "color")
          /\ HasValue(c.values, "color", LastDeclared(k, "color"))

(* C19: every Block box has content.x = containing content.x + margin.left *)
(* + border.left + padding.left and content.y = containing content.y + H + *)
(* margin.top + border.top + padding.top, where H is the sum of the        *)
(* margin-box heights of its earlier siblings (0 for a first child and for *)
(* the root); in a box that layout reaches the top and left border and     *)
(* padding and the top margin are the specified ones.                      *)

PositionedIn(box, x, y, h) ==
    LET d == box.dimensions
    IN /\ d.content.x = x + d.margin.left + d.border.left + d.padding.left
       /\ d.content.y = y + h + d.margin.top + d.border.top + d.padding.top

SpecifiedTopLeft(box) ==
    LET d == box.dimensions
        st == StyleOf(box)
    IN /\ d.margin.top = to_px(lookup(st, "margin-top", "margin", zero))
       /\ d.border.top = to_px(lookup(st, "border-top-width", "border-width", zero))
       /\ d.padding.top = to_px(lookup(st, "padding-top", "padding", zero))
       /\ d.border.left = to_px(lookup(st, "border-left-width", "border-width", zero))
       /\ d.padding.left = to_px(lookup(st, "padding-left", "padding", zero))

C19_BlockPosition ==
    Laid =>
        /\ lay.box_type.kind = "BlockNode" =>
               PositionedIn(lay, viewport.content.x, viewport.content.y, 0)
        /\ \A parent \in Boxes(lay) : \A i \in BlockChildren(parent) :
               PositionedIn(parent.children[i],
                            parent.dimensions.content.x, parent.dimensions.content.y,
                            SumOfHeights(SubSeq(parent.children, 1, i - 1), 1))
        /\ \A c \in LaidBlockBoxes : SpecifiedTopLeft(c.box)

\* In a viewport at (10, 20) a root with margin 8 holds a child of height 50
\* and margin-top 2, then a child with padding 4 and border 1
C19_Witness ==
    /\ Laid
    /\ viewport.content.x = F(10) /\ viewport.content.y = F(20)
    /\ lay.box_type.kind = "BlockNode"
    /\ lay.dimensions.content.x = F(18) /\ lay.dimensions.content.y = F(28)
    /\ Kinds(lay.children) = <<"BlockNode", "BlockNode">>
    /\ margin_box(lay.children[1].dimensions).height = F(52)
    /\ lay.children[1].dimensions.content.y = F(30)
    /\ lay.children[2].dimensions.content.x = F(23)
    /\ lay.children[2].dimensions.content.y = F(85)

(* C20: the final content height of a Block box that layout reaches is its *)
(* height property when that is a pixel length, and otherwise (unset,      *)
(* keyword or percentage) the sum of the margin-box heights of its direct  *)
(* children; a pixel height on the parent leaves its children where the    *)
(* accumulated sum put them.                                               *)

Without(m, name) == [k \in DOMAIN m \ {name} |-> m[k]]

MarginTop(d) == d.content.y - d.padding.top - d.border.top - d.margin.top
MarginHeight(d) ==
    d.content.height + d.padding.top + d.padding.bottom + d.border.top + d.border.bottom
    + d.margin.top + d.margin.bottom

\* Children i < j are Block boxes with no Block box between them
NextBlock(box, i, j) ==
    /\ i \in BlockChildren(box) /\ j \in BlockChildren(box)
    /\ i < j
    /\ \A k \in BlockChildren(box) : ~(i < k /\ k < j)

C21_MarginBoxesAbut ==
    Laid =>
        /\ \A parent \in Boxes(lay) : \A i, j \in 1..Len(parent.children) :
              NextBlock(parent, i, j) =>
                  MarginTop(parent.children[j].dimensions) =
                      MarginTop(parent.children[i].dimensions)
                      + MarginHeight(parent.children[i].dimensions)
        /\ \A c \in LaidBlockBoxes : \A i \in BlockChildren(c.box) :
              (\A k \in BlockChildren(c.box) : i <= k) =>
                  MarginTop(c.box.children[i].dimensions) = c.box.dimensions.content.y

\* A child of height 50 and margin-top 2, then a child with padding and
\* border: the second margin box starts 52 below the first
C21_Witness ==
    /\ Laid
    /\ lay.box_type.kind = "BlockNode"
    /\ Kinds(lay.children) = <<"BlockNode", "BlockNode">>
    /\ lay.children[1].dimensions.margin.top = F(2)
    /\ lay.children[2].dimensions.border.top = F(1)
    /\ MarginTop(lay.children[1].dimensions) = lay.dimensions.content.y
    /\ MarginHeight(lay.children[1].dimensions) = F(52)
    /\ MarginTop(lay.children[2].dimensions) = lay.dimensions.content.y + F(52)

(* C22: a Block box whose width is not auto and whose total (margins,      *)
(* borders, paddings and width, auto counted as 0) exceeds the containing  *)
(* content width gets every auto margin resolved to 0, keeps a margin-left *)
(* that is not auto and its width, and ends with margin-right = its        *)
(* (possibly zeroed) value + the negative underflow.                       *)

Overflowing(c) ==
    LET st == StyleOf(c.box)
    IN SpecifiedWidth(st) # auto /\ Total(st) > c.containing.content.width

C22_OverflowZeroesAutoMargins ==
    Laid =>
        \A c \in LaidBlockBoxes :
            LET st == StyleOf(c.box)
                d == c.box.dimensions
            IN Overflowing(c) =>
                /\ SpecifiedMarginLeft(st) = auto => d.margin.left = 0
                /\ SpecifiedMarginLeft(st) # auto => d.margin.left = to_px(SpecifiedMarginLeft(st))
                /\ SpecifiedMarginRight(st) = auto => d.margin.right = Underflow(c)
                /\ SpecifiedMarginRight(st) # auto =>
                       d.margin.right = to_px(SpecifiedMarginRight(st)) + Underflow(c)
                /\ d.margin.right < to_px(SpecifiedMarginRight(st))
                /\ d.content.width = to_px(SpecifiedWidth(st))

\* Width 150 and both margins auto in a containing width of 100
C22_Witness ==
    /\ Laid
    /\ \E c \in LaidBlockBoxes :
          /\ Overflowing(c)
          /\ c.containing.content.width = F(100)
          /\ SpecifiedWidth(StyleOf(c.box)) = Px(150)
          /\ SpecifiedMarginLeft(StyleOf(c.box)) = auto
          /\ SpecifiedMarginRight(StyleOf(c.box)) = auto
          /\ InnerEdges(StyleOf(c.box)) = 0
          /\ c.box.dimensions.margin.left = 0
          /\ c.box.dimensions.margin.right = -F(50)

(* C23: a Block box with a width that is not auto, whose total does not    *)
(* exceed the containing width and with exactly one of margin-left and     *)
(* margin-right auto, gets that margin = underflow and keeps its width and *)
(* its other margin as specified.                                          *)

OneAutoMargin(c) ==
    LET st == StyleOf(c.box)
    IN /\ SpecifiedWidth(st) # auto
       /\ Total(st) <= c.containing.content.width
       /\ (SpecifiedMarginLeft(st) = auto) # (SpecifiedMarginRight(st) = auto)

C23_SingleAutoMargin ==
    Laid =>
        \A c \in LaidBlockBoxes :
            LET st == StyleOf(c.box)
                d == c.box.dimensions
            IN OneAutoMargin(c) =>
                /\ d.content.width = to_px(SpecifiedWidth(st))
                /\ SpecifiedMarginLeft(st) = auto =>
                       /\ d.margin.left = Underflow(c)
                       /\ d.margin.right = to_px(SpecifiedMarginRight(st))
                /\ SpecifiedMarginRight(st) = auto =>
                       /\ d.margin.right = Underflow(c)
                       /\ d.margin.left = to_px(SpecifiedMarginLeft(st))

\* Width 100, margin-left auto and margin-right 2 in a containing width of 800
C23_Witness ==
    /\ Laid
    /\ \E c \in LaidBlockBoxes :
          /\ OneAutoMargin(c)
          /\ c.containing.content.width = F(800)
          /\ SpecifiedWidth(StyleOf(c.box)) = Px(100)
          /\ SpecifiedMarginLeft(StyleOf(c.box)) = auto
          /\ SpecifiedMarginRight(StyleOf(c.box)) = Px(2)
          /\ InnerEdges(StyleOf(c.box)) = 0
          /\ c.box.dimensions.margin.left = F(698)
          /\ c.box.dimensions.margin.right = F(2)
          /\ c.box.dimensions.content.width = F(100)

(* C24: a Block box with width auto whose margins, borders and paddings    *)
(* alone exceed the containing width (underflow < 0) gets content width 0, *)
(* an auto margin-left becomes 0 and margin-right = (specified             *)
(* margin-right, 0 if auto) + underflow.                                   *)

AutoWidthOverflows(c) ==
    SpecifiedWidth(StyleOf(c.box)) = auto /\ Underflow(c) < 0

C24_AutoWidthOverflow ==
    Laid =>
        \A c \in LaidBlockBoxes :
            LET st == StyleOf(c.box)
                d == c.box.dimensions
            IN AutoWidthOverflows(c) =>
                /\ d.content.width = 0
                /\ d.margin.left = to_px(SpecifiedMarginLeft(st))
                /\ SpecifiedMarginLeft(st) = auto => d.margin.left = 0
                /\ d.margin.right = to_px(SpecifiedMarginRight(st)) + Underflow(c)
                /\ SpecifiedMarginRight(st) = auto => d.margin.right = Underflow(c)

\* Margin 8, padding 4 and border 1 in a containing width of 10
C24_Witness ==
    /\ Laid
    /\ \E c \in LaidBlockBoxes :
          /\ AutoWidthOverflows(c)
          /\ c.containing.content.width = F(10)
          /\ SpecifiedMarginLeft(StyleOf(c.box)) = Px(8)
          /\ SpecifiedMarginRight(StyleOf(c.box)) = Px(8)
          /\ InnerEdges(StyleOf(c.box)) = F(10)
          /\ c.box.dimensions.content.width = 0
          /\ c.box.dimensions.margin.left = F(8)
          /\ c.box.dimensions.margin.right = -F(8)

(* C26: for every Block box, whatever the kinds of value of its width and  *)
(* margins (auto, pixel length, percentage, other keyword, unset), the     *)
(* stored margin.left + border.left + padding.left + content.width +       *)
(* padding.right + border.right + margin.right is the content width of its *)
(* containing block.                                                       *)

OuterWidth(d) ==
    d.margin.left + d.border.left + d.padding.left + d.content.width
    + d.padding.right + d.border.right + d.margin.right

C26_WidthsFillContainingBlock ==
    Laid =>
        /\ lay.box_type.kind = "BlockNode" => OuterWidth(lay.dimensions) = viewport.content.width
        /\ \A parent \in Boxes(lay) : \A i \in BlockChildren(parent) :
              OuterWidth(parent.children[i].dimensions) = parent.dimensions.content.width

\* A percentage width, a percentage margin-left and an auto margin-right
\* with padding and border
C26_Witness ==
    /\ Laid
    /\ lay.box_type.kind = "BlockNode"
    /\ viewport.content.width = F(800)
    /\ SpecifiedWidth(snode) = Percentage(F(50))
    /\ SpecifiedMarginLeft(snode) = Percentage(F(10))
    /\ SpecifiedMarginRight(snode) = auto
    /\ InnerEdges(snode) = F(10)
    /\ lay.dimensions.content.width = 0
    /\ lay.dimensions.margin.left = 0
    /\ lay.dimensions.margin.right = F(790)
    /\ Len(lay.children) = 1
    /\ OuterWidth(lay.children[1].dimensions) = 0

-----------------------------------------------------------------------------
(* The accessors of ElementData and the selector match, each called on an  *)
(* element whose class attribute is any short string of letters, spaces    *)
(* and tabs                                                                *)

MaxClassLen == 3     \* characters of a class attribute

ClassChars == {"c", "d", " ", "\t"}

\* The selector .c
ClassC == SimpleSelector(None, None, <<Str("c")>>)

DomInit ==
    /\ mode = "dom"
    /\ pc = "input"
    /\ \E id \in {None, Some("a")} :
       \E class \in {None} \cup {Some(cs) : cs \in SeqsUpTo(ClassChars, MaxClassLen)} :
          doc = Node(Element("p", Attrs(id, class)), <<>>)
    /\ sheet = NoValue
    /\ styled = NoValue
    /\ snode = NoValue
    /\ viewport = NoValue
    /\ lay = NoValue
    /\ receiver = NoValue
    /\ source = NoValue
    /\ out = NoValue

\* A method that borrows the element (&self) and returns
Answers(method, result) ==
    /\ mode = "dom"
    /\ pc = "input"
    /\ out' = [method |-> method, result |-> result]
    /\ pc' = "done"
    /\ UNCHANGED <<mode, doc, sheet, styled, snode, viewport, lay, receiver, source>>

ElementId == Answers("id", elem_id(doc.node_type))

ElementClasses == Answers("classes", classes(doc.node_type))

MatchesSimpleSelector ==
    Answers("matches_simple_selector", matches_simple_selector(doc.node_type, ClassC))

DomNext ==
    \/ ElementId
    \/ ElementClasses
    \/ MatchesSimpleSelector

DomSpec == DomInit /\ [][DomNext]_vars

DomDone == mode = "dom" /\ pc = "done"

\* The names that splitting on whitespace gives: the maximal runs of
\* characters other than space and tab
RECURSIVE WhitespaceNames(_, _)
WhitespaceNames(s, cur) ==
    IF s = <<>> THEN (IF cur = <<>> THEN {} ELSE {cur})
    ELSE IF Head(s) \in {" ", "\t"}
         THEN (IF cur = <<>> THEN {} ELSE {cur}) \cup WhitespaceNames(Tail(s), <<>>)
         ELSE WhitespaceNames(Tail(s), Append(cur, Head(s)))

NamesOf(elem) ==
    IF elem.attributes.class = None THEN {} ELSE WhitespaceNames(elem.attributes.class[1], <<>>)

(* C25: ElementData::classes returns the names that splitting the class    *)
(* attribute on runs of whitespace gives, none of them empty, and the      *)
(* empty set when the attribute is absent; the selector .c matches exactly *)
(* when c is one of those names.                                           *)
C25_ClassesSplitOnWhitespace ==
    DomDone =>
        /\ out.method = "classes" => out.result = NamesOf(doc.node_type)
        /\ out.method = "matches_simple_selector" =>
               (out.result <=> Str("c") \in NamesOf(doc.node_type))

\* class="c<tab>d": one name that holds the tab, so .c does not match
C25_Witness ==
    /\ DomDone
    /\ doc.node_type.attributes.class = Some(<<"c", "\t", "d">>)
    /\ out.method = "matches_simple_selector"
    /\ out.result = FALSE
    /\ classes(doc.node_type) = {<<"c", "\t", "d">>}


(* C27: layout_tree on a styled tree whose root is displayed returns a     *)
(* layout tree and never panics: no Anonymous box is solved (its style     *)
(* node is never asked for, its Dimensions stay the default ones), and the *)
(* build of every displayed node below the root succeeds although nodes    *)
(* with display: none lie beside or below it.                              *)

IsLayoutBox(b) == DOMAIN b = {"dimensions", "box_type", "children"}

Range(seq) == {seq[i] : i \in 1..Len(seq)}

C27_NoFatalFailure ==
    (LayoutDone /\ display(snode) # "None") =>
        /\ IsLayoutBox(lay)
        /\ \A b \in Boxes(lay) :
              /\ IsLayoutBox(b)
              /\ b.box_type.kind = "AnonymousBlock" => b.dimensions = DefaultDimensions
        /\ \A st \in Range(VisibleNodes(snode)) : IsLayoutBox(build_layout_tree(st))

\* A Block root with a solved Block child, an Anonymous box and a child that
\* is not displayed
C27_Witness ==
    /\ Laid
    /\ lay.box_type.kind = "BlockNode"
    /\ NonePaths(snode) # {}
    /\ \E i \in 1..Len(lay.children) :
          /\ lay.children[i].box_type.kind = "BlockNode"
          /\ lay.children[i].dimensions.content.height > 0
    /\ \E j \in 1..Len(lay.children) :
          /\ lay.children[j].box_type.kind = "AnonymousBlock"
          /\ lay.children[j].children # <<>>


(* C28: in every layout tree the root is not Anonymous; an Anonymous box   *)
(* is the child of a Block box only, is not empty and has Inline children  *)
(* only; the children of an Inline box are the boxes of its displayed      *)
(* style children themselves, Inline or Block by their display, one for    *)
(* one and in document order; below a Block box the same holds once the    *)
(* Anonymous wrappers are opened; and the styled nodes the boxes refer to  *)
(* are, in document order and each once, the nodes with no display: none   *)
(* on their path from the root.                                            *)

BoxKindOf(st) == IF display(st) = "Block" THEN "BlockNode" ELSE "InlineNode"

\* The boxes are the boxes of the styled nodes, one for one and in order
BoxesOf(boxes, nodes) ==
    /\ Len(boxes) = Len(nodes)
    /\ \A k \in 1..Len(boxes) :
          /\ boxes[k].box_type.node = Some(nodes[k])
          /\ boxes[k].box_type.kind = BoxKindOf(nodes[k])

C28_TreeStructure ==
    Laid =>
        /\ lay.box_type.kind # "AnonymousBlock"
        /\ \A b \in Boxes(lay) :
              /\ b.box_type.kind = "AnonymousBlock" =>
                    /\ b.children # <<>>
                    /\ \A k \in 1..Len(b.children) : b.children[k].box_type.kind = "InlineNode"
              /\ b.box_type.kind # "BlockNode" =>
                    \A k \in 1..Len(b.children) : b.children[k].box_type.kind # "AnonymousBlock"
              /\ b.box_type.kind = "InlineNode" =>
                    BoxesOf(b.children, Displayed(StyleOf(b).children))
              /\ b.box_type.kind = "BlockNode" =>
                    BoxesOf(Unwrapped(b.children, 1), Displayed(StyleOf(b).children))
        /\ BoxNodes(lay) = VisibleNodes(snode)

\* An Inline root that holds an Inline and a Block child directly; the
\* Block child wraps its own inline child
C28_Witness ==
    /\ Laid
    /\ lay.box_type.kind = "InlineNode"
    /\ Kinds(lay.children) = <<"InlineNode", "BlockNode">>
    /\ Kinds(lay.children[2].children) = <<"AnonymousBlock">>
    /\ Kinds(lay.children[2].children[1].children) = <<"InlineNode">>
    /\ Len(BoxNodes(lay)) = 4


(* C29: the call of layout_tree sets the content height of the caller's    *)
(* containing block to 0 and leaves its width, x, y and edge sizes as they *)
(* were; the layout tree it returns is the one it returns for any other    *)
(* height passed, and a Block root lies at the containing block's          *)
(* content.y plus its own top margin, border and padding, however high the *)
(* viewport was. The root's margin-box height is not added to the          *)
(* containing block.                                                       *)

OtherHeights == {0, F(1), F(600)}

TopEdges(d) == d.margin.top + d.border.top + d.padding.top

C29_HeightReset ==
    [][ (mode = "layout" /\ pc = "input") =>
            /\ viewport' = [viewport EXCEPT !.content.height = 0]
            /\ \A h \in OtherHeights :
                  lay' = layout_tree(snode, [viewport EXCEPT !.content.height = h]).result
            /\ (~IsPanic(lay') /\ lay'.box_type.kind = "BlockNode") =>
                  lay'.dimensions.content.y =
                      viewport.content.y + TopEdges(lay'.dimensions) ]_vars

\* The root of a stack, laid out in the 800x600 viewport at (10, 20): it is
\* 28 below the top, not 628, and its height is not added to the viewport
C29_Witness ==
    /\ Laid
    /\ viewport = [Viewport(F(800), 0) EXCEPT !.content.x = F(10), !.content.y = F(20)]
    /\ value(snode, "margin") = Some(Px(8))
    /\ lay.dimensions.content.y = F(28)
    /\ lay.dimensions.content.x = F(18)
    /\ margin_box(lay.dimensions).height > F(16)

-----------------------------------------------------------------------------
(* css.rs : the parser of selector lists. The input is a sequence of       *)
(* characters; pos counts the characters consumed (every character drawn   *)
(* is one byte long). Class names are kept as character sequences, as in   *)
(* dom.rs; tag names and ids are strings.                                  *)

MaxSelectors == 3    \* selectors of a selector list

Parser(pos, input) == [pos |-> pos, input |-> input]

IdentifierChars ==
    { "a", "b", "c", "d", "e", "f", "g", "h", "i", "j", "k", "l", "m",
      "n", "o", "p", "q", "r", "s", "t", "u", "v", "w", "x", "y", "z",
      "A", "B", "C", "D", "E", "F", "G", "H", "I", "J", "K", "L", "M",
      "N", "O", "P", "Q", "R", "S", "T", "U", "V", "W", "X", "Y", "Z",
      "0", "1", "2", "3", "4", "5", "6", "7", "8", "9", "-", "_" }

valid_identifier_char(c) == c \in IdentifierChars

\* char::is_whitespace on the characters a stylesheet is written with
is_whitespace(c) == c \in {" ", "\t", "\n", "\r", "\f"}

eof(self) == self.pos >= Len(self.input)

\* Defined when eof(self) is false; at the end of the input the unwrap fails
next_char(self) == self.input[self.pos + 1]

\* Option::unwrap on None
UnwrapNone == Panic("called Option::unwrap() on a None value")

consume_char(self) == [self EXCEPT !.pos = @ + 1]

\* consume_while: the characters consumed and the parser after them; test is
\* the set of characters the predicate accepts
RECURSIVE consume_while(_, _, _)
consume_while(self, test, result) ==
    IF ~eof(self) /\ test[next_char(self)]
    THEN consume_while(consume_char(self), test, Append(result, next_char(self)))
    ELSE [result |-> result, parser |-> self]

IdentifierTest == [c \in IdentifierChars \cup {" ", "\t", "\n", "\r", "\f", "#", ".", "*", ",", "{", "}"} |->
                      valid_identifier_char(c)]
WhitespaceTest == [c \in DOMAIN IdentifierTest |-> is_whitespace(c)]

parse_identifier(self) == consume_while(self, IdentifierTest, <<>>)

consume_whitespace(self) == consume_while(self, WhitespaceTest, <<>>).parser

\* The String that holds the characters
RECURSIVE StringOf(_)
StringOf(chars) == IF chars = <<>> THEN "" ELSE Head(chars) \o StringOf(Tail(chars))

\* The loop of parse_simple_selector
RECURSIVE parse_simple_selector_loop(_, _)
parse_simple_selector_loop(self, selector) ==
    IF eof(self) THEN [selector |-> selector, parser |-> self]
    ELSE LET c == next_char(self)
             ident == parse_identifier(consume_char(self))
         IN IF c = "#"
            THEN parse_simple_selector_loop(
                     ident.parser, [selector EXCEPT !.id = Some(StringOf(ident.result))])
            ELSE IF c = "."
            THEN parse_simple_selector_loop(
                     ident.parser, [selector EXCEPT !.class = Append(@, ident.result)])
            ELSE IF c = "*"
            THEN parse_simple_selector_loop(consume_char(self), selector)
            ELSE IF valid_identifier_char(c)
            THEN LET name == parse_identifier(self)
                 IN parse_simple_selector_loop(
                        name.parser, [selector EXCEPT !.tag_name = Some(StringOf(name.result))])
            ELSE [selector |-> selector, parser |-> self]

parse_simple_selector(self) ==
    parse_simple_selector_loop(self, SimpleSelector(None, None, <<>>))

\* Variant: the selector of the smaller specificity comes first
SelectorBefore_ascending(a, b) == SpecificityLess(specificity(a), specificity(b))

\* The comparator of selectors.sort_by: b.specificity().cmp(&a.specificity());
\* TRUE when a must come before b.
SelectorBefore(a, b) == SpecificityLess(specificity(b), specificity(a))

\* slice::sort_by is a stable sort
RECURSIVE InsertSelector(_, _)
InsertSelector(sorted, x) ==
    IF sorted = <<>> THEN <<x>>
    ELSE IF SelectorBefore(x, sorted[Len(sorted)])
         THEN Append(InsertSelector(SubSeq(sorted, 1, Len(sorted) - 1), x), sorted[Len(sorted)])
         ELSE Append(sorted, x)

RECURSIVE sort_by_specificity(_)
sort_by_specificity(selectors) ==
    IF selectors = <<>> THEN <<>>
    ELSE InsertSelector(sort_by_specificity(SubSeq(selectors, 1, Len(selectors) - 1)),
                        selectors[Len(selectors)])

\* The loop of parse_selectors: the selectors in the order they are written
\* and the parser at the opening brace, or the panic
RECURSIVE parse_selectors_loop(_, _)
parse_selectors_loop(self, selectors) ==
    LET simple == parse_simple_selector(self)
        pushed == Append(selectors, simple.selector)
        p == consume_whitespace(simple.parser)
    IN IF eof(p) THEN UnwrapNone
       ELSE IF next_char(p) = ","
            THEN parse_selectors_loop(consume_whitespace(consume_char(p)), pushed)
            ELSE IF next_char(p) = "{"
                 THEN [selectors |-> pushed, parser |-> p]
                 ELSE Panic("Unexpected character " \o next_char(p) \o " in selector list")

parse_selectors(self) ==
    LET r == parse_selectors_loop(self, <<>>)
    IN IF IsPanic(r) THEN r
       ELSE [selectors |-> sort_by_specificity(r.selectors), parser |-> r.parser]

-----------------------------------------------------------------------------
(* The parser of selector lists and the match of the parsed rule, as a     *)
(* state machine                                                           *)

SelectorTexts ==
    { <<"p">>, <<"*">>, <<"d", "i", "v">>, <<".", "c">>, <<"#", "a">>,
      <<"p", ".", "c">>, <<".", "c", ".", "d">> }

Separators == { <<",">>, <<" ", ",", " ">>, <<" ">> }

Endings == { <<"{">>, <<" ", "{">>, <<>> }

RECURSIVE Joined(_, _, _)
Joined(texts, sep, i) ==
    IF i > Len(texts) THEN <<>>
    ELSE texts[i] \o (IF i < Len(texts) THEN sep ELSE <<>>) \o Joined(texts, sep, i + 1)

ParseInit ==
    /\ mode = "parse"
    /\ pc = "input"
    /\ \E texts \in SeqsUpTo(SelectorTexts, MaxSelectors) \ {<<>>} :
       \E sep \in Separators : \E ending \in Endings :
          source = Joined(texts, sep, 1) \o ending
    /\ \E e \in Elements : doc = Node(e, <<>>)
    /\ sheet = NoValue
    /\ styled = NoValue
    /\ snode = NoValue
    /\ viewport = NoValue
    /\ lay = NoValue
    /\ receiver = NoValue
    /\ out = NoValue

\* Parser::parse_selectors on the text of a selector list; the rule holds
\* the selectors it returns (parse_rule)
ParseSelectors ==
    /\ mode = "parse"
    /\ pc = "input"
    /\ LET r == parse_selectors(Parser(0, source))
       IN IF IsPanic(r)
          THEN /\ out' = [method |-> "parse_selectors", result |-> r]
               /\ pc' = "aborted"
               /\ UNCHANGED sheet
          ELSE /\ sheet' = Stylesheet(<<Rule(r.selectors, <<>>)>>)
               /\ out' = [method |-> "parse_selectors", result |-> r.parser.pos]
               /\ pc' = "parsed"
    /\ UNCHANGED <<mode, doc, styled, snode, viewport, lay, receiver, source>>

\* match_rule(elem, rule) on the parsed rule
MatchRule ==
    /\ mode = "parse"
    /\ pc = "parsed"
    /\ out' = [method |-> "match_rule", result |-> match_rule(doc.node_type, sheet.rules[1])]
    /\ pc' = "done"
    /\ UNCHANGED <<mode, doc, sheet, styled, snode, viewport, lay, receiver, source>>

ParseNext ==
    \/ ParseSelectors
    \/ MatchRule

ParseSpec == ParseInit /\ [][ParseNext]_vars

Matched == mode = "parse" /\ pc = "done"

\* The selectors in the order the text gives them
Written == parse_selectors_loop(Parser(0, source), <<>>).selectors

WithSpecificity(selectors, w) == SelectSeq(selectors, LAMBDA s : specificity(s) = w)

\* The specificities of the selectors that match the element
MatchingSpecificities(elem, selectors) ==
    {specificity(selectors[k]) : k \in {m \in 1..Len(selectors) : matches(elem, selectors[m])}}

(* C30: the selector list of a parsed rule holds the selectors of the text *)
(* in order of non-increasing specificity, selectors of equal specificity  *)
(* in the order they are written; and the specificity match_rule gives a   *)
(* parsed rule is the greatest specificity among its selectors that match  *)
(* the element (none when no selector matches).                            *)
C30_ParsedSelectorsSorted ==
    Matched =>
        LET parsed == sheet.rules[1].selectors
            hits == MatchingSpecificities(doc.node_type, parsed)
        IN /\ Len(parsed) = Len(Written)
           /\ \A i, j \in 1..Len(parsed) :
                 i < j => ~SpecificityLess(specificity(parsed[i]), specificity(parsed[j]))
           /\ \A k \in 1..Len(Written) :
                 WithSpecificity(parsed, specificity(Written[k])) =
                     WithSpecificity(Written, specificity(Written[k]))
           /\ hits = MatchingSpecificities(doc.node_type, Written)
           /\ IF hits = {} THEN out.result = None
              ELSE /\ out.result # None
                   /\ out.result[1][2] = sheet.rules[1]
                   /\ out.result[1][1] \in hits
                   /\ \A w \in hits : ~SpecificityLess(out.result[1][1], w)

\* "div , .c.d , #a {" on the element div#a with classes c and d: every
\* selector matches, the id selector is written last and decides
C30_Witness ==
    /\ Matched
    /\ Len(Written) = 3
    /\ specificity(Written[1]) = <<0, 0, 1>>
    /\ specificity(Written[2]) = <<0, 2, 0>>
    /\ specificity(Written[3]) = <<1, 0, 0>>
    /\ \A k \in 1..3 : matches(doc.node_type, Written[k])
    /\ sheet.rules[1].selectors = <<Written[3], Written[2], Written[1]>>
    /\ out.result = Some(<<(<<1, 0, 0>>), sheet.rules[1]>>)

=============================================================================
